---- MODULE Spec2Model ----
(***************************************************************************)
(* State-machine model of PySrDaliGateway's DaliGateway session            *)
(* (src/PySrDaliGateway/gateway.py): the per-command coalescing batches    *)
(* and their flush timers, the connect / disconnect lifecycle, the broker  *)
(* client's callbacks and the publish calls.                               *)
(*                                                                         *)
(* A Python dict is modelled as the sequence of its items in insertion     *)
(* order, each item a record [k |-> key, v |-> value]: assigning to an     *)
(* existing key keeps its position, a new key is appended.                 *)
(***************************************************************************)
EXTENDS Integers, Sequences, FiniteSets, TLC

VARIABLES
    pending_requests,   \* self._pending_requests: dict cmd -> dict device_key -> data
    batch_timer,        \* self._batch_timer: dict cmd -> TimerHandle
    loop_timers,        \* the event loop's call_later queue (all delays are window_ms)
    published,          \* the calls made to self._mqtt_client.publish, oldest first
    connect_result,     \* self._connect_result: <<>> for None, <<rc>> for a result code
    connection_event,   \* self._connection_event.is_set()
    pc_connect,         \* where the connect() coroutine is: "idle" or "waiting"
    wait_elapsed,       \* seconds connect() has spent in asyncio.wait_for
    loop_running,       \* the client's I/O pump thread (loop_start .. loop_stop)
    link,               \* the broker connection: "closed", "connecting", "established"
    subscribed,         \* the topics subscribed to on the current connection
    on_online_status,   \* self._on_online_status: None or the listener
    online_events,      \* what the online-status listener has been called with
    last_call,          \* how the last finished connect() / disconnect() ended
    window_calls,       \* the add_request calls made and not yet flushed, oldest first
    received,           \* kind -> is_set() of self._<kind>_received
    devices_result,     \* self._devices_result
    scenes_result,      \* self._scenes_result
    groups_result,      \* self._groups_result
    version_result,     \* self._version_result: None or a VersionType
    pc_discover,        \* "idle", or the kind of the get_version / discover_* call waiting
    discover_elapsed,   \* seconds that call has spent in asyncio.wait_for
    last_discover,      \* how the last finished get_version / discover_* call ended
    waiting_request,    \* the number of the request the waiting call has published
    gateway_requests,   \* the requests the gateway has received and not yet answered
    signalled_by,       \* kind -> the request answered by the response that set the signal
    last_inbound,       \* the last message _on_message was called with, and how it ended
    on_energy_report,   \* self._on_energy_report: None or the listener
    energy_events,      \* what the energy-report listener has been called with
    registered,         \* the callbacks given to the on_online_status setter, in order
    on_device_status,   \* self._on_device_status: None or the listener
    device_events,      \* what the device-status listener has been called with
    identify_received,  \* TestDaliGateway: self._identify_received.is_set()
    identify_ack,       \* TestDaliGateway: self._identify_ack
    pc_identify,        \* where wait_for_identify_response is: "idle" or "waiting"
    identify_elapsed,   \* seconds that call has spent in asyncio.wait_for
    last_identify,      \* how the last finished wait_for_identify_response ended
    interfaces,         \* discover_gateways: the interfaces of get_valid_interfaces
    listen_sock,        \* the listener socket: "none", "open" or "closed"
    socket_queue,       \* the datagrams that wait on the listener socket
    pc_gateways,        \* where discover_gateways is: "idle", "running" or "joining"
    gateways_elapsed,   \* seconds since start_time of _run_discovery
    first_gateway_found, \* first_gateway_found.is_set()
    unique_gateways,    \* the list _run_discovery returns
    seen_sns,           \* the serials of the gateways in unique_gateways
    sender_task,        \* "none", "pending", "finished" or "cancelled"
    receiver_task,      \* "none", "pending", "finished" or "failed"
    last_gateways,      \* how the last finished discover_gateways call ended
    received_datagrams, \* the datagrams recvfrom has returned during the call
    paho_thread,        \* where the broker client's thread is inside a callback
    last_crypt          \* the last MessageCryptor call: its arguments and its result

vars == <<pending_requests, batch_timer, loop_timers, published, connect_result,
          connection_event, pc_connect, wait_elapsed, loop_running, link,
          subscribed, on_online_status, online_events, last_call, window_calls,
          received, devices_result, scenes_result, groups_result, version_result,
          pc_discover, discover_elapsed, last_discover, waiting_request,
          gateway_requests, signalled_by, last_inbound, on_energy_report,
          energy_events, registered, on_device_status, device_events,
          identify_received, identify_ack, pc_identify, identify_elapsed,
          last_identify, interfaces, listen_sock, socket_queue, pc_gateways,
          gateways_elapsed, first_gateway_found, unique_gateways, seen_sns,
          sender_task, receiver_task, last_gateways, received_datagrams,
          paho_thread, last_crypt>>

batch_vars == <<pending_requests, batch_timer, loop_timers>>
conn_vars == <<connect_result, connection_event, pc_connect, wait_elapsed,
               loop_running, link, subscribed, last_call>>
listener_vars == <<on_online_status, online_events>>
result_vars == <<received, devices_result, scenes_result, groups_result, version_result>>
wait_vars == <<pc_discover, discover_elapsed, last_discover, waiting_request>>
gateway_vars == <<gateway_requests, signalled_by>>
discovery_vars == <<result_vars, wait_vars, gateway_vars>>
identify_vars == <<identify_received, identify_ack, pc_identify, identify_elapsed,
                   last_identify>>
udp_vars == <<interfaces, listen_sock, socket_queue, pc_gateways, gateways_elapsed,
              first_gateway_found, unique_gateways, seen_sns, sender_task,
              receiver_task, last_gateways, received_datagrams>>
thread_vars == <<paho_thread, last_crypt>>
inbound_vars == <<last_inbound, on_energy_report, energy_events, registered,
                  on_device_status, device_events, identify_vars, udp_vars,
                  thread_vars>>
device_vars == <<on_device_status, device_events>>
\* inbound_vars without the position of the broker client's thread
handler_vars == <<last_inbound, on_energy_report, energy_events, registered,
                  device_vars, identify_vars, udp_vars, last_crypt>>

----------------------------------------------------------------------------
(* Bounds of the model *)

MaxPublished == 1       \* publish calls of the commands recorded
MaxEvents == 2          \* calls recorded for each listener
MaxCalls == 3           \* add_request calls waiting for a flush
MaxRequests == 2        \* publish calls of get_version / discover_* recorded
TickSeconds == 10       \* seconds of waiting for a response that pass in one step
MaxDatagrams == 2       \* datagrams that arrive during one discover_gateways call
GatewaysTickSeconds == 60   \* seconds of a gateway discovery that pass in one step
MaxText == 2            \* characters of a text given to encrypt_data

----------------------------------------------------------------------------
(* Constants of the program and the input domains *)

None == "None"

gw_sn == "GW1"
pub_topic == "/" \o gw_sn \o "/server/publish/"
sub_topic == "/" \o gw_sn \o "/client/reciver/"

window_ms == 100
CONNECT_TIMEOUT == 10
RESPONSE_TIMEOUT == 30
IDENTIFY_TIMEOUT == 5
DISCOVERY_TIMEOUT == 180
time_time == 1700000000

BatchCmds == {"readDev", "writeDev"}

\* the devices the dispatcher specification draws from
Devices == {<<"0101", 0, 1>>, <<"0101", 0, 2>>}
\* the devices the session specification draws from
SessionDevices == {<<"0101", 0, 1>>}

PropOn == <<[dpid |-> 20, dataType |-> "bool", value |-> TRUE]>>
PropOff == <<[dpid |-> 20, dataType |-> "bool", value |-> FALSE]>>
PropertyLists == {PropOn, PropOff}
SessionPropertyLists == {PropOn}

GroupIds == {5}
GroupChannels == {0}

\* CONNACK result codes the connect callback can report
ConnackCodes == {0, 1, 4, 5}
\* reason codes of an unexpected disconnection
DisconnectReasons == {7}

----------------------------------------------------------------------------
(* Python dict operations *)

DictHas(d, k) == \E i \in 1..Len(d) : d[i].k = k

DictIndex(d, k) == CHOOSE i \in 1..Len(d) : d[i].k = k

DictAt(d, k) == d[DictIndex(d, k)].v

DictSet(d, k, v) ==
    IF DictHas(d, k)
    THEN [d EXCEPT ![DictIndex(d, k)] = [k |-> k, v |-> v]]
    ELSE Append(d, [k |-> k, v |-> v])

DictPop(d, k) == SelectSeq(d, LAMBDA e : e.k # k)

DictValues(d) == [i \in 1..Len(d) |-> d[i].v]

\* dict.get(k) is falsy: the key is missing or its value is an empty dict
GetIsFalsy(d, k) == ~DictHas(d, k) \/ DictAt(d, k) = <<>>

----------------------------------------------------------------------------
(* Helpers *)

\* a key that leaves the address out
get_device_key_without_address(dev_type, channel, address) ==
    dev_type \o "_" \o ToString(channel)

\* f"{dev_type}_{channel}_{address}"
get_device_key(dev_type, channel, address) ==
    dev_type \o "_" \o ToString(channel) \o "_" \o ToString(address)

\* str(int(time.time()))
MsgId == ToString(time_time)

\* self._mqtt_client.publish(self._pub_topic, json.dumps(command))
Publish(log, command) == Append(log, [topic |-> pub_topic, payload |-> command])

\* gen_device_unique_id: "dev_type-channel-address-gw_sn"
gen_device_unique_id(dev_type, channel, address, sn) ==
    dev_type \o "-" \o ToString(channel) \o "-" \o ToString(address) \o "-" \o sn

----------------------------------------------------------------------------
(* Request dispatcher: add_request and the flush timer *)

\* asyncio.get_event_loop().call_later(window_ms / 1000.0, self._flush_batch, cmd)
call_later(cmd) == [callback |-> "_flush_batch", arg |-> cmd, delay_ms |-> window_ms]

\* add_request scheduling a timer on every call
add_request_always_scheduling(cmd, dev_type, channel, address, data) ==
    LET with_cmd == IF ~DictHas(pending_requests, cmd)
                    THEN DictSet(pending_requests, cmd, <<>>)
                    ELSE pending_requests
        device_key == get_device_key(dev_type, channel, address)
    IN  /\ pending_requests' =
               DictSet(with_cmd, cmd, DictSet(DictAt(with_cmd, cmd), device_key, data))
        /\ batch_timer' = DictSet(batch_timer, cmd, call_later(cmd))
        /\ loop_timers' = Append(loop_timers, call_later(cmd))

add_request(cmd, dev_type, channel, address, data) ==
    LET with_cmd == IF ~DictHas(pending_requests, cmd)
                    THEN DictSet(pending_requests, cmd, <<>>)
                    ELSE pending_requests
        device_key == get_device_key(dev_type, channel, address)
    IN  /\ pending_requests' =
               DictSet(with_cmd, cmd, DictSet(DictAt(with_cmd, cmd), device_key, data))
        /\ IF ~DictHas(batch_timer, cmd)
           THEN /\ batch_timer' = DictSet(batch_timer, cmd, call_later(cmd))
                /\ loop_timers' = Append(loop_timers, call_later(cmd))
           ELSE UNCHANGED <<batch_timer, loop_timers>>

\* a batch message that leaves the gateway serial out
BatchCommand_without_gwSn(cmd) ==
    [cmd |-> cmd, msgId |-> MsgId, data |-> DictValues(DictAt(pending_requests, cmd))]

\* the message _flush_batch builds from the pending payloads of cmd
BatchCommand(cmd) ==
    [cmd |-> cmd, msgId |-> MsgId, gwSn |-> gw_sn,
     data |-> DictValues(DictAt(pending_requests, cmd))]

\* a flush that clears the batches and the timer handles of all commands
flush_batch_clearing_all(cmd) ==
    IF GetIsFalsy(pending_requests, cmd)
    THEN UNCHANGED <<pending_requests, batch_timer, published>>
    ELSE /\ Len(published) < MaxPublished
         /\ published' = Publish(published, BatchCommand(cmd))
         /\ pending_requests' = <<>>
         /\ batch_timer' = <<>>

flush_batch(cmd) ==
    IF GetIsFalsy(pending_requests, cmd)
    THEN UNCHANGED <<pending_requests, batch_timer, published>>
    ELSE /\ Len(published) < MaxPublished
         /\ published' = Publish(published, BatchCommand(cmd))
         /\ pending_requests' = DictSet(pending_requests, cmd, <<>>)
         /\ batch_timer' = DictPop(batch_timer, cmd)

\* the event loop runs the earliest scheduled timer
TimerFires ==
    /\ loop_timers # <<>>
    /\ loop_timers' = Tail(loop_timers)
    /\ flush_batch(Head(loop_timers).arg)
    /\ window_calls' = IF GetIsFalsy(pending_requests, Head(loop_timers).arg)
                       THEN window_calls
                       ELSE SelectSeq(window_calls,
                                      LAMBDA c : c.cmd # Head(loop_timers).arg)
    /\ UNCHANGED <<conn_vars, listener_vars, discovery_vars, inbound_vars>>

\* the timer callback when json.dumps(command) or publish raises: json.dumps
\* raises TypeError for a payload with a value JSON cannot carry, publish
\* raises ValueError for a payload the client does not accept. _flush_batch
\* ends at the publish call, the lines after it do not run, and the event
\* loop logs the exception of the callback.
flush_batch_raises ==
    /\ loop_timers # <<>>
    /\ ~GetIsFalsy(pending_requests, Head(loop_timers).arg)
    /\ loop_timers' = Tail(loop_timers)
    /\ UNCHANGED <<pending_requests, batch_timer, published, window_calls, conn_vars,
                   listener_vars, discovery_vars, inbound_vars>>

command_write_dev(dev_type, channel, address, properties) ==
    /\ add_request("writeDev", dev_type, channel, address,
                   [devType |-> dev_type, channel |-> channel,
                    address |-> address, property |-> properties])
    /\ UNCHANGED <<published, conn_vars, listener_vars, discovery_vars, inbound_vars>>

command_read_dev(dev_type, channel, address) ==
    /\ add_request("readDev", dev_type, channel, address,
                   [devType |-> dev_type, channel |-> channel, address |-> address])
    /\ UNCHANGED <<published, conn_vars, listener_vars, discovery_vars, inbound_vars>>

\* the message command_write_group builds
write_group_command(group_id, channel, properties) ==
    [cmd |-> "writeGroup", msgId |-> MsgId, gwSn |-> gw_sn,
     channel |-> channel, groupId |-> group_id, data |-> properties]

\* a command_write_group that goes through the batch window like writeDev
command_write_group_batched(group_id, channel, properties) ==
    /\ add_request("writeGroup", "group", channel, group_id,
                   [channel |-> channel, groupId |-> group_id, data |-> properties])
    /\ UNCHANGED <<published, window_calls, conn_vars, listener_vars, discovery_vars,
                   inbound_vars>>

command_write_group(group_id, channel, properties) ==
    /\ Len(published) < MaxPublished
    /\ published' = Publish(published, write_group_command(group_id, channel, properties))
    /\ UNCHANGED <<batch_vars, window_calls, conn_vars, listener_vars, discovery_vars,
                   inbound_vars>>

command_write_scene(scene_id, channel) ==
    /\ Len(published) < MaxPublished
    /\ published' = Publish(published,
           [cmd |-> "writeScene", msgId |-> MsgId, gwSn |-> gw_sn,
            channel |-> channel, sceneId |-> scene_id])
    /\ UNCHANGED <<batch_vars, window_calls, conn_vars, listener_vars, discovery_vars,
                   inbound_vars>>

command_set_sensor_on_off(dev_type, channel, address, value) ==
    /\ Len(published) < MaxPublished
    /\ published' = Publish(published,
           [cmd |-> "setSensorOnOff", msgId |-> MsgId, gwSn |-> gw_sn,
            devType |-> dev_type, channel |-> channel, address |-> address,
            value |-> value])
    /\ UNCHANGED <<batch_vars, window_calls, conn_vars, listener_vars, discovery_vars,
                   inbound_vars>>

command_get_sensor_on_off(dev_type, channel, address) ==
    /\ Len(published) < MaxPublished
    /\ published' = Publish(published,
           [cmd |-> "getSensorOnOff", msgId |-> MsgId, gwSn |-> gw_sn,
            devType |-> dev_type, channel |-> channel, address |-> address])
    /\ UNCHANGED <<batch_vars, window_calls, conn_vars, listener_vars, discovery_vars,
                   inbound_vars>>

----------------------------------------------------------------------------
(* Group: turn_on and turn_off *)

\* An optional argument is <<>> for None and <<x>> for the value x.

\* Group._create_property
create_property(dpid, data_type, value) ==
    [dpid |-> dpid, dataType |-> data_type, value |-> value]

\* "if x:" for an optional number
Truthy(x) == x # <<>> /\ x[1] # 0

\* the HSV text turn_on builds from r, g, b with colorsys.rgb_to_hsv, for the
\* colours of the model: hue in degrees, saturation and value in thousandths,
\* four hex digits each
hsv_hex(r, g, b) ==
    CASE <<r, g, b>> = <<255, 0, 0>> -> "0000" \o "03e8" \o "03e8"
      [] <<r, g, b>> = <<0, 255, 0>> -> "0078" \o "03e8" \o "03e8"

\* the properties turn_on collects before it sends them
turn_on_properties(brightness, color_temp_kelvin, rgbw_color) ==
    <<create_property(20, "bool", TRUE)>>
    \o (IF Truthy(brightness)
        THEN <<create_property(22, "uint16", brightness[1])>> ELSE <<>>)
    \o (IF Truthy(color_temp_kelvin)
        THEN <<create_property(23, "uint16", color_temp_kelvin[1])>> ELSE <<>>)
    \o (IF rgbw_color # <<>> /\ \E k \in 1..3 : rgbw_color[k] # 0
        THEN <<create_property(24, "string",
                               hsv_hex(rgbw_color[1], rgbw_color[2], rgbw_color[3]))>>
        ELSE <<>>)
    \o (IF rgbw_color # <<>> /\ rgbw_color[4] > 0
        THEN <<create_property(21, "uint8", rgbw_color[4])>> ELSE <<>>)

\* a _send_properties that sends all properties in one writeGroup message
send_properties_in_one_message(group_id, channel, properties) ==
    /\ Len(published) < MaxPublished
    /\ published' = Publish(published, write_group_command(group_id, channel, properties))
    /\ UNCHANGED <<batch_vars, window_calls, conn_vars, listener_vars, discovery_vars,
                   inbound_vars>>

\* Group._send_properties: one command_write_group call for each property
send_properties(group_id, channel, properties) ==
    /\ Len(published) < MaxPublished
    /\ published' = published \o
           [i \in 1..Len(properties) |->
               [topic |-> pub_topic,
                payload |-> write_group_command(group_id, channel, <<properties[i]>>)]]
    /\ UNCHANGED <<batch_vars, window_calls, conn_vars, listener_vars, discovery_vars,
                   inbound_vars>>

\* Group.turn_on
turn_on(group_id, channel, brightness, color_temp_kelvin, rgbw_color) ==
    send_properties(group_id, channel,
                    turn_on_properties(brightness, color_temp_kelvin, rgbw_color))

\* Group.turn_off
turn_off(group_id, channel) ==
    send_properties(group_id, channel, <<create_property(20, "bool", FALSE)>>)

----------------------------------------------------------------------------
(* Errors *)

\* ErrorCodes.get_mqtt_error_code
get_mqtt_error_code(mqtt_result_code) ==
    CASE mqtt_result_code = 1 -> "MQTT_PROTOCOL_ERROR"
      [] mqtt_result_code = 2 -> "MQTT_BROKER_UNAVAILABLE"
      [] mqtt_result_code = 3 -> "MQTT_BROKER_UNAVAILABLE"
      [] mqtt_result_code = 4 -> "AUTH_REQUIRED"
      [] mqtt_result_code = 5 -> "AUTH_INVALID_CREDENTIALS"
      [] OTHER -> "MQTT_ERROR_" \o ToString(mqtt_result_code)

\* how a call ended: returned, or raised DaliGatewayError(message, gateway_sn,
\* error_code) with __cause__ = cause ("raise ... from err")
Returned(op) ==
    [op |-> op, raised |-> FALSE, exc |-> None, message |-> None,
     gateway_sn |-> None, error_code |-> None, cause |-> None]

DaliGatewayError(op, message, gateway_sn, error_code, cause) ==
    [op |-> op, raised |-> TRUE, exc |-> "DaliGatewayError", message |-> message,
     gateway_sn |-> gateway_sn, error_code |-> error_code, cause |-> cause]

----------------------------------------------------------------------------
(* Session: connect, disconnect and the broker client's callbacks *)

\* connect(), up to the await, for a gateway without TLS: clear the signal and
\* the result, open the broker connection and start the I/O pump; a socket
\* error raises at once
ConnectBegin ==
    /\ pc_connect = "idle"
    /\ connection_event' = FALSE
    /\ connect_result' = <<>>
    /\ subscribed' = {}
    /\ \E socket_error \in BOOLEAN :
          IF socket_error
          THEN /\ link' = "closed"
               /\ last_call' = DaliGatewayError("connect", "Network error connecting",
                                                gw_sn, None, "OSError")
               /\ UNCHANGED <<pc_connect, wait_elapsed, loop_running>>
          ELSE /\ link' = "connecting"
               /\ loop_running' = TRUE
               /\ pc_connect' = "waiting"
               /\ wait_elapsed' = 0
               /\ UNCHANGED last_call
    /\ UNCHANGED <<batch_vars, window_calls, published, listener_vars, discovery_vars,
                   inbound_vars>>

\* one second passes while connect() waits in asyncio.wait_for(..., timeout=10)
Tick ==
    /\ pc_connect = "waiting"
    /\ wait_elapsed < CONNECT_TIMEOUT
    /\ wait_elapsed' = wait_elapsed + 1
    /\ UNCHANGED <<batch_vars, window_calls, published, listener_vars, discovery_vars,
                   inbound_vars, connect_result,
                   connection_event, pc_connect, loop_running, link, subscribed,
                   last_call>>

\* f"{self._connect_result}"
ResultStr(result) == IF result = <<>> THEN "None" ELSE ToString(result[1])

\* connect() returning normally on a result code other than 0, 4 and 5
ConnectOutcome_without_else(timed_out, result) ==
    IF timed_out
    THEN DaliGatewayError("connect", "Connection timeout to gateway", gw_sn, None,
                          "TimeoutError")
    ELSE IF result \in {<<4>>, <<5>>}
    THEN DaliGatewayError("connect", "Authentication failed, press the gateway button",
                          gw_sn, None, None)
    ELSE Returned("connect")

\* how connect() ends once wait_for is over: timed_out, or the signal was set
\* and result is self._connect_result
ConnectOutcome(timed_out, result) ==
    IF timed_out
    THEN DaliGatewayError("connect", "Connection timeout to gateway", gw_sn, None,
                          "TimeoutError")
    ELSE IF result = <<0>>
    THEN Returned("connect")
    ELSE IF result \in {<<4>>, <<5>>}
    THEN DaliGatewayError("connect", "Authentication failed, press the gateway button",
                          gw_sn, None, None)
    ELSE DaliGatewayError("connect",
                          "Connection failed with code " \o ResultStr(result),
                          None, None, None)

\* wait_for raises asyncio.TimeoutError
ConnectTimeout ==
    /\ pc_connect = "waiting"
    /\ ~connection_event
    /\ wait_elapsed = CONNECT_TIMEOUT
    /\ last_call' = ConnectOutcome(TRUE, connect_result)
    /\ pc_connect' = "idle"
    /\ wait_elapsed' = 0
    /\ UNCHANGED <<batch_vars, window_calls, published, listener_vars, discovery_vars,
                   inbound_vars, connect_result,
                   connection_event, loop_running, link, subscribed>>

\* the signal is set: wait_for returns and connect() looks at the result
ConnectResume ==
    /\ pc_connect = "waiting"
    /\ connection_event
    /\ last_call' = ConnectOutcome(FALSE, connect_result)
    /\ pc_connect' = "idle"
    /\ wait_elapsed' = 0
    /\ UNCHANGED <<batch_vars, window_calls, published, listener_vars, discovery_vars,
                   inbound_vars, connect_result,
                   connection_event, loop_running, link, subscribed>>

\* disconnect(): loop_stop(), client.disconnect(), clear the signal. It has no
\* await, so it runs in one step; client.disconnect() closes the connection
\* and the client calls _on_disconnect(0), which only logs. The except branch
\* wraps an exception of the client, which the client calls modelled here do
\* not raise.
disconnect ==
    /\ loop_running' = FALSE
    /\ link' = "closed"
    /\ subscribed' = {}
    /\ connection_event' = FALSE
    /\ last_call' = Returned("disconnect")
    /\ UNCHANGED <<batch_vars, window_calls, published, listener_vars, discovery_vars,
                   inbound_vars, connect_result,
                   pc_connect, wait_elapsed>>

\* _on_connect(rc), called by the pump when the broker answers the CONNECT
on_connect(rc) ==
    /\ loop_running
    /\ link = "connecting"
    /\ connect_result' = <<rc>>
    /\ connection_event' = TRUE
    /\ IF rc = 0
       THEN subscribed' = {sub_topic} /\ link' = "established"
       ELSE subscribed' = {} /\ link' = "closed"
    /\ UNCHANGED <<batch_vars, window_calls, published, listener_vars, discovery_vars,
                   inbound_vars, pc_connect,
                   wait_elapsed, loop_running, last_call>>

\* _on_disconnect(reason_code), called by the pump when the connection is lost:
\* it logs and changes nothing of the session
on_disconnect(reason_code) ==
    /\ loop_running
    /\ link = "established"
    /\ reason_code # 0
    /\ link' = "closed"
    /\ subscribed' = {}
    /\ UNCHANGED <<batch_vars, window_calls, published, listener_vars, discovery_vars,
                   inbound_vars, connect_result,
                   connection_event, pc_connect, wait_elapsed, loop_running, last_call>>

\* the on_online_status setter: the one slot takes the new callback
set_on_online_status(callback) ==
    /\ on_online_status' = callback
    /\ UNCHANGED <<batch_vars, window_calls, published, conn_vars, online_events,
                   discovery_vars, last_inbound, on_energy_report, energy_events,
                   device_vars, identify_vars, udp_vars, thread_vars>>

\* the on_energy_report setter
set_on_energy_report(callback) ==
    /\ on_energy_report' = callback
    /\ UNCHANGED <<batch_vars, window_calls, published, conn_vars, listener_vars,
                   discovery_vars, last_inbound, energy_events, registered,
                   device_vars, identify_vars, udp_vars, thread_vars>>

\* the on_device_status setter
set_on_device_status(callback) ==
    /\ on_device_status' = callback
    /\ UNCHANGED <<batch_vars, window_calls, published, conn_vars, listener_vars,
                   discovery_vars, last_inbound, on_energy_report, energy_events,
                   registered, device_events, identify_vars, udp_vars, thread_vars>>

----------------------------------------------------------------------------
(* Inbound messages: _on_message and its handlers *)

\* An inbound message is [text |-> "invalid"] for a payload that is not JSON,
\* [text |-> "array", value |-> v] for JSON that is not an object, and
\* [text |-> "object", value |-> r] for a JSON object with the fields of r.

\* json.loads(msg.payload.decode())
json_loads(msg) ==
    IF msg.text = "invalid"
    THEN [exc |-> "JSONDecodeError"]
    ELSE [exc |-> None, value |-> msg.value, is_dict |-> msg.text = "object"]

\* dict.get(k, default)
Get(o, k, default) == IF k \in DOMAIN o THEN o[k] ELSE default

\* x in list
In(x, list) == \E i \in 1..Len(list) : list[i] = x

\* the kinds of completion signal: self._<kind>_received
Kinds == {"version", "devices", "groups", "scenes"}

\* the exceptions a listener of the model raises
CallbackErrors == {"RuntimeError", "ValueError"}

\* what the listener does on its calls for the first and the second entry of a
\* message: return (None) or raise
Behaviours == [1..2 -> {None} \cup CallbackErrors]
NoRaise == [i \in 1..2 |-> None]

\* a handler table sending every unknown cmd to the version handler
command_handlers_with_default(cmd) ==
    CASE cmd \in {"devStatus", "readDevRes"} -> "_process_device_status"
      [] cmd \in {"writeDevRes", "writeGroupRes", "writeSceneRes"} ->
             "_process_write_response"
      [] cmd = "onlineStatus" -> "_process_online_status"
      [] cmd = "reportEnergy" -> "_process_energy_report"
      [] cmd = "searchDevRes" -> "_process_search_device_response"
      [] cmd = "getSceneRes" -> "_process_get_scene_response"
      [] cmd = "getGroupRes" -> "_process_get_group_response"
      [] cmd = "setSensorOnOffRes" -> "_process_set_sensor_on_off_response"
      [] cmd = "getSensorOnOffRes" -> "_process_get_sensor_on_off_response"
      [] OTHER -> "_process_get_version_response"

\* command_handlers.get(cmd)
command_handlers(cmd) ==
    CASE cmd \in {"devStatus", "readDevRes"} -> "_process_device_status"
      [] cmd \in {"writeDevRes", "writeGroupRes", "writeSceneRes"} ->
             "_process_write_response"
      [] cmd = "onlineStatus" -> "_process_online_status"
      [] cmd = "reportEnergy" -> "_process_energy_report"
      [] cmd = "searchDevRes" -> "_process_search_device_response"
      [] cmd = "getSceneRes" -> "_process_get_scene_response"
      [] cmd = "getGroupRes" -> "_process_get_group_response"
      [] cmd = "getVersionRes" -> "_process_get_version_response"
      [] cmd = "setSensorOnOffRes" -> "_process_set_sensor_on_off_response"
      [] cmd = "getSensorOnOffRes" -> "_process_get_sensor_on_off_response"
      [] OTHER -> None

\* the least of the indices, n + 1 when there is none
FirstIndex(indices, n) ==
    IF indices = {}
    THEN n + 1
    ELSE CHOOSE i \in indices : \A j \in indices : i <= j

\* _process_online_status: the entries the loop reaches; it stops at the first
\* call of the listener that raises
online_status_reached(payload, behaviour) ==
    IF "data" \notin DOMAIN payload \/ payload.data = <<>>
    THEN 0
    ELSE IF on_online_status = None
    THEN Len(payload.data)
    ELSE LET n == Len(payload.data)
             stop == FirstIndex({i \in 1..n : behaviour[i] # None}, n)
         IN  IF stop <= n THEN stop ELSE n

\* a loop over the entries that starts from the last one
OnlineStatusCalls_latest_first(payload, behaviour) ==
    IF on_online_status = None
    THEN <<>>
    ELSE LET reached == online_status_reached(payload, behaviour)
         IN  [i \in 1..reached |->
                [listener |-> on_online_status,
                 dev_id |-> gen_device_unique_id(
                                Get(payload.data[reached + 1 - i], "devType", None),
                                Get(payload.data[reached + 1 - i], "channel", None),
                                Get(payload.data[reached + 1 - i], "address", None),
                                gw_sn),
                 available |-> Get(payload.data[reached + 1 - i], "status", FALSE),
                 raised |-> behaviour[i] # None]]

\* the calls of the listener _process_online_status makes
OnlineStatusCalls(payload, behaviour) ==
    IF on_online_status = None
    THEN <<>>
    ELSE [i \in 1..online_status_reached(payload, behaviour) |->
            [listener |-> on_online_status,
             dev_id |-> gen_device_unique_id(Get(payload.data[i], "devType", None),
                                             Get(payload.data[i], "channel", None),
                                             Get(payload.data[i], "address", None),
                                             gw_sn),
             available |-> Get(payload.data[i], "status", FALSE),
             raised |-> behaviour[i] # None]]

process_online_status(payload, behaviour) ==
    online_events' = online_events \o OnlineStatusCalls(payload, behaviour)

\* the exception _process_online_status ends with, None when it returns
online_status_error(payload, behaviour) ==
    LET calls == OnlineStatusCalls(payload, behaviour)
    IN  IF calls # <<>> /\ calls[Len(calls)].raised
        THEN behaviour[Len(calls)]
        ELSE None

\* "not x" for the value of a field that holds an object or a list
Falsy(x) == DOMAIN x = {}

\* _process_device_status gets past "if not data"
device_status_has_data(payload) ==
    "data" \in DOMAIN payload /\ ~Falsy(payload.data)

\* a handler that calls the listener once for each property
DeviceStatusCalls_per_property(payload, behaviour) ==
    IF ~device_status_has_data(payload) \/ on_device_status = None
    THEN <<>>
    ELSE [i \in 1..Len(Get(payload.data, "property", <<>>)) |->
            [listener |-> on_device_status,
             dev_id |-> gen_device_unique_id(Get(payload.data, "devType", None),
                                             Get(payload.data, "channel", None),
                                             Get(payload.data, "address", None), gw_sn),
             property_list |-> <<payload.data.property[i]>>,
             raised |-> behaviour[1] # None]]

\* the calls of the listener _process_device_status makes: none without data,
\* without a device identifier or without a listener, one otherwise
DeviceStatusCalls(payload, behaviour) ==
    IF ~device_status_has_data(payload)
    THEN <<>>
    ELSE LET data == payload.data
             dev_id == gen_device_unique_id(Get(data, "devType", None),
                                            Get(data, "channel", None),
                                            Get(data, "address", None), gw_sn)
         IN  IF dev_id = "" \/ on_device_status = None
             THEN <<>>
             ELSE <<[listener |-> on_device_status,
                     dev_id |-> dev_id,
                     property_list |-> Get(data, "property", <<>>),
                     raised |-> behaviour[1] # None]>>

process_device_status(payload, behaviour) ==
    device_events' = device_events \o DeviceStatusCalls(payload, behaviour)

\* the exception _process_device_status ends with, None when it returns
device_status_error(payload, behaviour) ==
    IF DeviceStatusCalls(payload, behaviour) # <<>> THEN behaviour[1] ELSE None

\* float(text) for the value texts of the model, in tenths; <<>> is ValueError
float(text) ==
    CASE text = "0" -> <<0>>
      [] text = "1.5" -> <<15>>
      [] text = "2.5" -> <<25>>
      [] OTHER -> <<>>

\* _process_energy_report calls the listener for the i-th property
EnergyCallAt(payload, i) ==
    LET prop == payload.data.property[i]
    IN  /\ Get(prop, "dpid", None) = 30
        /\ float(Get(prop, "value", "0")) # <<>>
        /\ on_energy_report # None

\* the properties the loop of _process_energy_report reaches: a ValueError or
\* TypeError of the listener is caught inside the loop, any other exception
\* ends it
energy_report_reached(payload, behaviour) ==
    IF "data" \notin DOMAIN payload \/ DOMAIN payload.data = {}
    THEN 0
    ELSE LET property_list == Get(payload.data, "property", <<>>)
             n == Len(property_list)
             stop == FirstIndex({i \in 1..n :
                                    /\ EnergyCallAt(payload, i)
                                    /\ behaviour[i] \notin {None, "ValueError",
                                                            "TypeError"}}, n)
         IN  IF stop <= n THEN stop ELSE n

\* the calls of the listener _process_energy_report makes
EnergyReportCalls(payload, behaviour) ==
    LET reached == energy_report_reached(payload, behaviour)
        called == SelectSeq([i \in 1..reached |-> i],
                            LAMBDA i : EnergyCallAt(payload, i))
    IN  [k \in 1..Len(called) |->
            [listener |-> on_energy_report,
             dev_id |-> gen_device_unique_id(Get(payload.data, "devType", None),
                                             Get(payload.data, "channel", None),
                                             Get(payload.data, "address", None),
                                             gw_sn),
             energy_value |-> float(Get(payload.data.property[called[k]],
                                        "value", "0"))[1],
             raised |-> behaviour[called[k]] # None]]

process_energy_report(payload, behaviour) ==
    energy_events' = energy_events \o EnergyReportCalls(payload, behaviour)

energy_report_error(payload, behaviour) ==
    LET calls == EnergyReportCalls(payload, behaviour)
        reached == energy_report_reached(payload, behaviour)
    IN  IF /\ calls # <<>>
           /\ calls[Len(calls)].raised
           /\ EnergyCallAt(payload, reached)
           /\ behaviour[reached] \notin {None, "ValueError", "TypeError"}
        THEN behaviour[reached]
        ELSE None

\* gen_device_name: a display name determined by the device triple
gen_device_name(dev_type, channel, address) ==
    "Device " \o dev_type \o " " \o ToString(channel) \o "-" \o ToString(address)

\* gen_scene_unique_id and gen_group_unique_id: "channel-id-gw_sn"
gen_scene_unique_id(scene_id, channel, sn) ==
    ToString(channel) \o "-" \o ToString(scene_id) \o "-" \o sn

gen_group_unique_id(group_id, channel, sn) ==
    ToString(channel) \o "-" \o ToString(group_id) \o "-" \o sn

\* a or b, for strings
Or(a, b) == IF a # "" THEN a ELSE b

\* the DeviceType _process_search_device_response builds from one raw entry
DeviceType(raw) ==
    LET dev_type == Get(raw, "devType", "")
        channel == Get(raw, "channel", 0)
        address == Get(raw, "address", 0)
    IN  [dev_type |-> dev_type, channel |-> channel, address |-> address,
         status |-> Get(raw, "status", ""),
         name |-> Or(Get(raw, "name", ""), gen_device_name(dev_type, channel, address)),
         dev_sn |-> Get(raw, "devSn", ""),
         area_name |-> Get(raw, "areaName", ""),
         area_id |-> Get(raw, "areaId", ""),
         prop |-> <<>>,
         id |-> Or(Get(raw, "devId", ""),
                   gen_device_unique_id(dev_type, channel, address, gw_sn)),
         unique_id |-> gen_device_unique_id(dev_type, channel, address, gw_sn)]

SceneType(channel, scene_data) ==
    [channel |-> channel, id |-> Get(scene_data, "sceneId", 0),
     name |-> Get(scene_data, "name", ""), area_id |-> Get(scene_data, "areaId", ""),
     unique_id |-> gen_scene_unique_id(Get(scene_data, "sceneId", 0), channel, gw_sn)]

GroupType(channel, group_data) ==
    [id |-> Get(group_data, "groupId", 0), name |-> Get(group_data, "name", ""),
     channel |-> channel, area_id |-> Get(group_data, "areaId", ""),
     unique_id |-> gen_group_unique_id(Get(group_data, "groupId", 0), channel, gw_sn)]

\* an append without the membership test
AppendAll(result, items) == result \o items

\* "if x not in result: result.append(x)" for the elements of items in turn
RECURSIVE AppendAbsent(_, _)
AppendAbsent(result, items) ==
    IF items = <<>>
    THEN result
    ELSE AppendAbsent(IF In(Head(items), result) THEN result
                      ELSE Append(result, Head(items)),
                      Tail(items))

\* every searchStatus ends the search
search_status_always_final(search_status) == TRUE

\* search_status == 1 or search_status == 0
search_status_is_final(search_status) == search_status = 1 \/ search_status = 0

\* _process_get_version_response
process_get_version_response(payload) ==
    /\ version_result' =
           <<[software |-> IF "data" \in DOMAIN payload
                           THEN Get(payload.data, "swVersion", "") ELSE "",
              firmware |-> IF "data" \in DOMAIN payload
                           THEN Get(payload.data, "fwVersion", "") ELSE ""]>>
    /\ received' = [received EXCEPT !["version"] = TRUE]

\* _process_search_device_response: payload_json["data"] and
\* payload_json["searchStatus"] raise KeyError when the field is missing, the
\* second after the loop has extended the result
process_search_device_response(payload) ==
    IF "data" \notin DOMAIN payload
    THEN UNCHANGED <<devices_result, received>>
    ELSE /\ devices_result' =
                AppendAbsent(devices_result,
                             [i \in 1..Len(payload.data) |-> DeviceType(payload.data[i])])
         /\ IF /\ "searchStatus" \in DOMAIN payload
               /\ search_status_is_final(payload.searchStatus)
            THEN received' = [received EXCEPT !["devices"] = TRUE]
            ELSE UNCHANGED received

search_device_error(payload) ==
    IF "data" \notin DOMAIN payload \/ "searchStatus" \notin DOMAIN payload
    THEN "KeyError"
    ELSE None

\* a loop that empties the result of a message without data
scenes_replaced(result, channels) ==
    LET with_data == SelectSeq(channels, LAMBDA c : "data" \in DOMAIN c)
    IN  IF with_data = <<>>
        THEN <<>>
        ELSE AppendAbsent(<<>>, [i \in 1..Len(with_data[Len(with_data)].data) |->
                                   SceneType(Get(with_data[Len(with_data)], "channel", 0),
                                             with_data[Len(with_data)].data[i])])

\* the loop of _process_get_scene_response over the channel entries: an entry
\* without data is skipped, an entry with data clears the result and refills it
RECURSIVE scenes_after(_, _)
scenes_after(result, channels) ==
    IF channels = <<>>
    THEN result
    ELSE LET channel_scenes == Head(channels)
             channel == Get(channel_scenes, "channel", 0)
         IN  IF "data" \notin DOMAIN channel_scenes
             THEN scenes_after(result, Tail(channels))
             ELSE scenes_after(
                      AppendAbsent(<<>>, [i \in 1..Len(channel_scenes.data) |->
                                            SceneType(channel, channel_scenes.data[i])]),
                      Tail(channels))

process_get_scene_response(payload) ==
    IF "scene" \notin DOMAIN payload
    THEN UNCHANGED <<scenes_result, received>>
    ELSE /\ scenes_result' = scenes_after(scenes_result, payload.scene)
         /\ received' = [received EXCEPT !["scenes"] = TRUE]

get_scene_error(payload) == IF "scene" \notin DOMAIN payload THEN "KeyError" ELSE None

\* the loop of _process_get_group_response over the channel entries
RECURSIVE groups_after(_, _)
groups_after(result, channels) ==
    IF channels = <<>>
    THEN result
    ELSE LET channel_groups == Head(channels)
             channel == Get(channel_groups, "channel", 0)
         IN  IF "data" \notin DOMAIN channel_groups
             THEN groups_after(result, Tail(channels))
             ELSE groups_after(
                      AppendAbsent(<<>>, [i \in 1..Len(channel_groups.data) |->
                                            GroupType(channel, channel_groups.data[i])]),
                      Tail(channels))

process_get_group_response(payload) ==
    IF "group" \notin DOMAIN payload
    THEN UNCHANGED <<groups_result, received>>
    ELSE /\ groups_result' = groups_after(groups_result, payload.group)
         /\ received' = [received EXCEPT !["groups"] = TRUE]

get_group_error(payload) == IF "group" \notin DOMAIN payload THEN "KeyError" ELSE None

\* TestDaliGateway._process_identify_dev_response, the handler the test
\* gateway defines for identifyDevRes: it keeps the ack and sets the signal
process_identify_dev_response(payload) ==
    /\ identify_ack' = Get(payload, "ack", FALSE)
    /\ identify_received' = TRUE

\* the classes "except Exception" catches
Exception ==
    {"JSONDecodeError", "AttributeError", "KeyError", "RuntimeError", "ValueError",
     "TypeError"}

\* _on_message catching the decode error only
on_message_except_json_only(exc) == exc = "JSONDecodeError"

\* the except clauses of _on_message: json.JSONDecodeError, then Exception
on_message_except(exc) == exc = "JSONDecodeError" \/ exc \in Exception

\* payload_json.get("cmd"), None when _on_message does not get that far
CmdOf(msg) ==
    IF json_loads(msg).exc # None \/ ~json_loads(msg).is_dict
    THEN None
    ELSE Get(json_loads(msg).value, "cmd", None)

\* the handler _on_message calls, None when it calls none
HandlerFor(msg) ==
    IF CmdOf(msg) \in {None, ""} THEN None ELSE command_handlers(CmdOf(msg))

\* the exception raised inside the try block of _on_message, None when there
\* is none: the decode error, .get on a value that is no dict, or what the
\* handler raises
on_message_error(msg, behaviour) ==
    LET handler == HandlerFor(msg)
        payload == json_loads(msg).value
    IN  IF json_loads(msg).exc # None THEN json_loads(msg).exc
        ELSE IF ~json_loads(msg).is_dict THEN "AttributeError"
        ELSE CASE handler = "_process_online_status" ->
                      online_status_error(payload, behaviour)
               [] handler = "_process_device_status" ->
                      device_status_error(payload, behaviour)
               [] handler = "_process_energy_report" ->
                      energy_report_error(payload, behaviour)
               [] handler = "_process_search_device_response" ->
                      search_device_error(payload)
               [] handler = "_process_get_scene_response" -> get_scene_error(payload)
               [] handler = "_process_get_group_response" -> get_group_error(payload)
               [] OTHER -> None

\* _on_message, called by the pump for a message on sub_topic. The listener
\* of _process_get_sensor_on_off_response is not part of the state of this
\* model, the write and setSensorOnOff responses are only logged.
on_message(msg, behaviour) ==
    /\ loop_running
    /\ link = "established"
    /\ sub_topic \in subscribed
    /\ LET handler == HandlerFor(msg)
           payload == json_loads(msg).value
           error == on_message_error(msg, behaviour)
       IN  /\ CASE handler = "_process_online_status" ->
                       /\ process_online_status(payload, behaviour)
                       /\ Len(online_events') <= MaxEvents
                       /\ UNCHANGED <<energy_events, device_events, result_vars>>
                [] handler = "_process_energy_report" ->
                       /\ process_energy_report(payload, behaviour)
                       /\ Len(energy_events') <= MaxEvents
                       /\ UNCHANGED <<online_events, device_events, result_vars>>
                [] handler = "_process_search_device_response" ->
                       /\ process_search_device_response(payload)
                       /\ UNCHANGED <<online_events, energy_events, device_events, scenes_result,
                                      groups_result, version_result>>
                [] handler = "_process_get_scene_response" ->
                       /\ process_get_scene_response(payload)
                       /\ UNCHANGED <<online_events, energy_events, device_events, devices_result,
                                      groups_result, version_result>>
                [] handler = "_process_get_group_response" ->
                       /\ process_get_group_response(payload)
                       /\ UNCHANGED <<online_events, energy_events, device_events, devices_result,
                                      scenes_result, version_result>>
                [] handler = "_process_get_version_response" ->
                       /\ process_get_version_response(payload)
                       /\ UNCHANGED <<online_events, energy_events, device_events, devices_result,
                                      scenes_result, groups_result>>
                [] handler = "_process_device_status" ->
                       /\ process_device_status(payload, behaviour)
                       /\ Len(device_events') <= MaxEvents
                       /\ UNCHANGED <<online_events, energy_events, result_vars>>
                [] handler = "_process_identify_dev_response" ->
                       /\ process_identify_dev_response(payload)
                       /\ UNCHANGED <<online_events, energy_events, device_events,
                                      result_vars>>
                [] OTHER -> UNCHANGED <<online_events, energy_events, device_events,
                                        result_vars>>
           /\ handler # "_process_identify_dev_response" =>
                  UNCHANGED <<identify_received, identify_ack>>
           /\ last_inbound' = [cmd |-> CmdOf(msg), error |-> error,
                               escaped |-> error # None /\ ~on_message_except(error)]
    /\ UNCHANGED <<batch_vars, window_calls, published, conn_vars, on_online_status,
                   on_energy_report, registered, on_device_status, wait_vars,
                   pc_identify, identify_elapsed, last_identify, udp_vars,
                   thread_vars>>

\* TestDaliGateway.wait_for_identify_response up to its await: the signal is
\* cleared and the ack reset
wait_for_identify_begin ==
    /\ pc_identify = "idle"
    /\ identify_received' = FALSE
    /\ identify_ack' = FALSE
    /\ pc_identify' = "waiting"
    /\ identify_elapsed' = 0
    /\ UNCHANGED <<batch_vars, window_calls, published, conn_vars, listener_vars,
                   discovery_vars, last_inbound, on_energy_report, energy_events,
                   registered, device_vars, last_identify, udp_vars, thread_vars>>

\* TickSeconds pass while the call waits in asyncio.wait_for(..., timeout=5.0)
IdentifyTick ==
    /\ pc_identify = "waiting"
    /\ identify_elapsed < IDENTIFY_TIMEOUT
    /\ identify_elapsed' = IF identify_elapsed + TickSeconds < IDENTIFY_TIMEOUT
                           THEN identify_elapsed + TickSeconds
                           ELSE IDENTIFY_TIMEOUT
    /\ UNCHANGED <<batch_vars, window_calls, published, conn_vars, listener_vars,
                   discovery_vars, last_inbound, on_energy_report, energy_events,
                   registered, device_vars, identify_received, identify_ack,
                   pc_identify, last_identify, udp_vars, thread_vars>>

\* the end of wait_for_identify_response: wait_for returns when the signal is
\* set, and the call returns the ack; it raises asyncio.TimeoutError after
\* 5 s without the signal, and the call returns False
wait_for_identify_end ==
    /\ pc_identify = "waiting"
    /\ identify_received \/ identify_elapsed = IDENTIFY_TIMEOUT
    /\ last_identify' = [op |-> "wait_for_identify_response",
                         timed_out |-> ~identify_received,
                         result |-> IF identify_received THEN identify_ack ELSE FALSE]
    /\ pc_identify' = "idle"
    /\ identify_elapsed' = 0
    /\ UNCHANGED <<batch_vars, window_calls, published, conn_vars, listener_vars,
                   discovery_vars, last_inbound, on_energy_report, energy_events,
                   registered, device_vars, identify_received, identify_ack, udp_vars,
                   thread_vars>>

\* the onlineStatus messages the session specification draws from
OnlineStatusMessages ==
    {[text |-> "object",
      value |-> [cmd |-> "onlineStatus",
                 data |-> <<[devType |-> d[1], channel |-> d[2], address |-> d[3],
                             status |-> st]>>]]
        : d \in SessionDevices, st \in BOOLEAN}

----------------------------------------------------------------------------
(* get_version and discover_devices / discover_groups / discover_scenes *)

\* the name of the coroutine that waits for the signal of kind
OpName(kind) ==
    CASE kind = "version" -> "get_version"
      [] kind = "devices" -> "discover_devices"
      [] kind = "groups" -> "discover_groups"
      [] kind = "scenes" -> "discover_scenes"

\* the request the coroutine publishes
discover_request(kind) ==
    CASE kind = "version" -> [cmd |-> "getVersion", msgId |-> MsgId, gwSn |-> gw_sn]
      [] kind = "devices" -> [cmd |-> "searchDev", searchFlag |-> "exited",
                              msgId |-> MsgId, gwSn |-> gw_sn]
      [] kind = "groups" -> [cmd |-> "getGroup", msgId |-> MsgId,
                             getFlag |-> "exited", gwSn |-> gw_sn]
      [] kind = "scenes" -> [cmd |-> "getScene", msgId |-> MsgId,
                             getFlag |-> "exited", gwSn |-> gw_sn]

\* what the coroutine returns: self._<kind>_result
ResultOf(kind) ==
    CASE kind = "version" -> version_result
      [] kind = "devices" -> devices_result
      [] kind = "groups" -> groups_result
      [] kind = "scenes" -> scenes_result

\* a coroutine that lets the TimeoutError of wait_for out
discover_outcome_raising_on_timeout(kind, timed_out) ==
    [op |-> OpName(kind), raised |-> timed_out, timed_out |-> timed_out,
     result |-> IF timed_out THEN <<>> ELSE ResultOf(kind)]

\* how the coroutine ends once wait_for is over: the TimeoutError is caught
\* and logged, and the result is returned either way
discover_outcome(kind, timed_out) ==
    [op |-> OpName(kind), raised |-> FALSE, timed_out |-> timed_out,
     result |-> ResultOf(kind)]

\* the coroutine up to its await: a new, unset asyncio.Event replaces the
\* signal, and the request is published. The model runs one of these
\* coroutines at a time.
discover_begin(kind) ==
    /\ pc_discover = "idle"
    /\ Len(published) < MaxRequests
    /\ received' = [received EXCEPT ![kind] = FALSE]
    /\ published' = Publish(published, discover_request(kind))
    /\ pc_discover' = kind
    /\ discover_elapsed' = 0
    /\ waiting_request' = Len(published) + 1
    /\ UNCHANGED <<batch_vars, window_calls, conn_vars, listener_vars, inbound_vars,
                   devices_result, scenes_result, groups_result, version_result,
                   last_discover>>

\* TickSeconds pass while the coroutine waits in
\* asyncio.wait_for(..., timeout=30.0)
DiscoverTick ==
    /\ pc_discover # "idle"
    /\ discover_elapsed < RESPONSE_TIMEOUT
    /\ discover_elapsed' = IF discover_elapsed + TickSeconds < RESPONSE_TIMEOUT
                           THEN discover_elapsed + TickSeconds
                           ELSE RESPONSE_TIMEOUT
    /\ UNCHANGED <<batch_vars, window_calls, published, conn_vars, listener_vars,
                   inbound_vars, result_vars, pc_discover, last_discover,
                   waiting_request, gateway_vars>>

\* wait_for raises asyncio.TimeoutError
DiscoverTimeout ==
    /\ pc_discover # "idle"
    /\ ~received[pc_discover]
    /\ discover_elapsed = RESPONSE_TIMEOUT
    /\ last_discover' = discover_outcome(pc_discover, TRUE)
    /\ pc_discover' = "idle"
    /\ discover_elapsed' = 0
    /\ UNCHANGED <<batch_vars, window_calls, published, conn_vars, listener_vars,
                   inbound_vars, result_vars, waiting_request, gateway_vars>>

\* the signal is set: wait_for returns
DiscoverResume ==
    /\ pc_discover # "idle"
    /\ received[pc_discover]
    /\ last_discover' = discover_outcome(pc_discover, FALSE)
    /\ pc_discover' = "idle"
    /\ discover_elapsed' = 0
    /\ UNCHANGED <<batch_vars, window_calls, published, conn_vars, listener_vars,
                   inbound_vars, result_vars, waiting_request, gateway_vars>>

----------------------------------------------------------------------------
(* DaliGatewayDiscovery: discover_gateways *)

\* everything of the session, which discovery leaves alone
session_vars == <<batch_vars, window_calls, published, conn_vars, listener_vars,
                  discovery_vars, last_inbound, on_energy_report, energy_events,
                  registered, device_vars, identify_vars, thread_vars>>

\* NetworkManager.is_valid_ip for an IPv4 address given as its four numbers:
\* not in 127.0.0.0/8 (loopback) and not in 169.254.0.0/16 (link-local)
is_valid_ip(ip) == ip[1] # 127 /\ ~(ip[1] = 169 /\ ip[2] = 254)

\* NetworkManager.create_interface_info
create_interface_info(name, ip) == [name |-> name, address |-> ip]

\* NetworkManager.get_valid_interfaces over the addresses of the host, a list
\* of [name, address]
get_valid_interfaces(addrs) ==
    LET valid == SelectSeq(addrs, LAMBDA a : is_valid_ip(a.address))
    IN  [i \in 1..Len(valid) |-> create_interface_info(valid[i].name, valid[i].address)]

\* A datagram is a record with the fields bytes ("utf8" or "binary"), text
\* ("invalid", "array" or "object") and data: <<>> for an object without a
\* data field, <<raw_data>> for an object with one.

\* MessageCryptor.decrypt_data for the hex texts of the model: <<>> is the
\* ValueError of bytes.fromhex, <<text>> the decrypted text
decrypt_data(encrypted_hex) ==
    CASE encrypted_hex = "" -> <<"">>
      [] encrypted_hex = "e1f2a3" -> <<"admin">>
      [] encrypted_hex = "b4c5d6" -> <<"secret">>
      [] OTHER -> <<>>

\* the exception _process_gateway_data ends with, None when it returns
process_gateway_data_error(raw_data) ==
    IF \/ decrypt_data(Get(raw_data, "username", "")) = <<>>
       \/ decrypt_data(Get(raw_data, "passwd", "")) = <<>>
    THEN "ValueError"
    ELSE None

\* _process_gateway_data: the DaliGatewayType built from raw_data
process_gateway_data(raw_data) ==
    [gw_sn |-> Get(raw_data, "gwSn", None),
     gw_ip |-> Get(raw_data, "gwIp", None),
     port |-> Get(raw_data, "port", None),
     is_tls |-> Get(raw_data, "isMqttTls", None),
     name |-> Or(Get(raw_data, "name", ""),
                 "Dali Gateway " \o Get(raw_data, "gwSn", None)),
     username |-> decrypt_data(Get(raw_data, "username", ""))[1],
     passwd |-> decrypt_data(Get(raw_data, "passwd", ""))[1],
     channel_total |-> SelectSeq(Get(raw_data, "channelTotal", <<>>),
                                 LAMBDA ch : ch >= 0)]

\* the body of the try block of _receiver_loop for the datagram recvfrom
\* returns: the exception it raises (None when it raises none) and the
\* gateway it accepts, <<>> when it accepts none
receive(datagram, seen) ==
    IF datagram.bytes = "binary"
    THEN [exc |-> "UnicodeDecodeError", gateway |-> <<>>]
    ELSE IF datagram.text = "invalid"
    THEN [exc |-> "JSONDecodeError", gateway |-> <<>>]
    ELSE IF datagram.text # "object"
    THEN [exc |-> "AttributeError", gateway |-> <<>>]
    ELSE IF datagram.data = <<>> \/ Get(datagram.data[1], "gwSn", None) \in seen
    THEN [exc |-> None, gateway |-> <<>>]
    ELSE IF process_gateway_data_error(datagram.data[1]) # None
    THEN [exc |-> process_gateway_data_error(datagram.data[1]), gateway |-> <<>>]
    ELSE [exc |-> None, gateway |-> <<process_gateway_data(datagram.data[1])>>]

\* what the receiver loop does on its next turn: recvfrom raises
\* BlockingIOError when no datagram waits
receive_next ==
    IF socket_queue = <<>>
    THEN [exc |-> "BlockingIOError", gateway |-> <<>>]
    ELSE receive(Head(socket_queue), seen_sns)

\* the except clause of _receiver_loop
receiver_except(exc) ==
    exc \in {"BlockingIOError", "CancelledError", "JSONDecodeError"}

\* a receiver that goes on after a gateway it has accepted
gateway_never_completes(outcome) == FALSE

\* the receiver sets first_gateway_found and breaks
gateway_completes(outcome) == outcome.gateway # <<>>

\* loops without the break at the timeout
loop_goes_on_without_timeout(found) == ~found

\* the head of both loops: "while not first_gateway_found.is_set()" and the
\* break at the timeout
loop_goes_on(found) == ~found /\ gateways_elapsed < DISCOVERY_TIMEOUT

\* discover_gateways up to the await of asyncio.wait in _run_discovery: the
\* interfaces are taken, the listener socket is opened, both tasks are created
\* and run up to their first await (the sender has sent once and waits for
\* the event, the receiver sleeps)
discover_gateways_begin(addrs) ==
    /\ pc_gateways = "idle"
    /\ interfaces' = get_valid_interfaces(addrs)
    /\ listen_sock' = "open"
    /\ socket_queue' = <<>>
    /\ pc_gateways' = "running"
    /\ gateways_elapsed' = 0
    /\ first_gateway_found' = FALSE
    /\ unique_gateways' = <<>>
    /\ seen_sns' = {}
    /\ sender_task' = "pending"
    /\ receiver_task' = "pending"
    /\ received_datagrams' = <<>>
    /\ UNCHANGED <<session_vars, last_gateways>>

\* a datagram reaches the listener socket
datagram_arrives(datagram) ==
    /\ listen_sock = "open"
    /\ Len(received_datagrams) + Len(socket_queue) < MaxDatagrams
    /\ socket_queue' = Append(socket_queue, datagram)
    /\ UNCHANGED <<session_vars, interfaces, listen_sock, pc_gateways,
                   gateways_elapsed, first_gateway_found, unique_gateways, seen_sns,
                   sender_task, receiver_task, last_gateways, received_datagrams>>

\* the receiver task wakes from asyncio.sleep(0.1) and runs to its next await
\* or to its end
receiver_loop ==
    /\ receiver_task = "pending"
    /\ LET outcome == receive_next
           found == first_gateway_found \/ gateway_completes(outcome)
       IN  /\ IF socket_queue = <<>>
              THEN UNCHANGED <<socket_queue, received_datagrams>>
              ELSE /\ socket_queue' = Tail(socket_queue)
                   /\ received_datagrams' = Append(received_datagrams, Head(socket_queue))
           /\ IF outcome.gateway # <<>>
              THEN /\ unique_gateways' = Append(unique_gateways, outcome.gateway[1])
                   /\ seen_sns' = seen_sns \cup {outcome.gateway[1].gw_sn}
              ELSE UNCHANGED <<unique_gateways, seen_sns>>
           /\ first_gateway_found' = found
           /\ receiver_task' =
                  IF outcome.exc # None /\ ~receiver_except(outcome.exc) THEN "failed"
                  ELSE IF gateway_completes(outcome) THEN "finished"
                  ELSE IF loop_goes_on(found) THEN "pending"
                  ELSE "finished"
    /\ UNCHANGED <<session_vars, interfaces, listen_sock, pc_gateways, gateways_elapsed,
                   sender_task, last_gateways>>

\* the sender task comes back from asyncio.wait_for(first_gateway_found.wait(),
\* timeout=SEND_INTERVAL): it ends when the event is set or the timeout has
\* passed, and sends again otherwise
sender_loop ==
    /\ sender_task = "pending"
    /\ sender_task' = IF loop_goes_on(first_gateway_found) THEN "pending" ELSE "finished"
    /\ UNCHANGED <<session_vars, interfaces, listen_sock, socket_queue, pc_gateways,
                   gateways_elapsed, first_gateway_found, unique_gateways, seen_sns,
                   receiver_task, last_gateways, received_datagrams>>

\* time passes during the discovery
GatewaysTick ==
    /\ pc_gateways # "idle"
    /\ gateways_elapsed < DISCOVERY_TIMEOUT
    /\ gateways_elapsed' = IF gateways_elapsed + GatewaysTickSeconds < DISCOVERY_TIMEOUT
                           THEN gateways_elapsed + GatewaysTickSeconds
                           ELSE DISCOVERY_TIMEOUT
    /\ UNCHANGED <<session_vars, interfaces, listen_sock, socket_queue, pc_gateways,
                   first_gateway_found, unique_gateways, seen_sns, sender_task,
                   receiver_task, last_gateways, received_datagrams>>

\* asyncio.wait(..., return_when=FIRST_COMPLETED) returns in _run_discovery
\* and the pending tasks are cancelled: the sender ends with the
\* CancelledError, the receiver catches it at its sleep and goes back to the
\* head of its loop
run_discovery_resume ==
    /\ pc_gateways = "running"
    /\ sender_task # "pending" \/ receiver_task # "pending"
    /\ sender_task' = IF sender_task = "pending" THEN "cancelled" ELSE sender_task
    /\ receiver_task' = IF receiver_task = "pending" /\ ~loop_goes_on(first_gateway_found)
                        THEN "finished"
                        ELSE receiver_task
    /\ pc_gateways' = "joining"
    /\ UNCHANGED <<session_vars, interfaces, listen_sock, socket_queue,
                   gateways_elapsed, first_gateway_found, unique_gateways, seen_sns,
                   last_gateways, received_datagrams>>

\* the cancelled tasks are over: _run_discovery returns unique_gateways and
\* the finally clause of discover_gateways cleans the socket up
discover_gateways_return ==
    /\ pc_gateways = "joining"
    /\ sender_task # "pending" /\ receiver_task # "pending"
    /\ last_gateways' = [op |-> "discover_gateways", raised |-> FALSE,
                         result |-> unique_gateways]
    /\ listen_sock' = "closed"
    /\ pc_gateways' = "idle"
    /\ UNCHANGED <<session_vars, interfaces, socket_queue, gateways_elapsed,
                   first_gateway_found, unique_gateways, seen_sns, sender_task,
                   receiver_task, received_datagrams>>

----------------------------------------------------------------------------
(* MessageCryptor: encrypt_data and decrypt_data *)

\* A text is the sequence of its code points, a bytes object the sequence of
\* its bytes, a hex text the sequence of its digits.

\* str.encode("utf-8") of one code point (no surrogate)
utf8_encode_char(cp) ==
    IF cp < 128 THEN <<cp>>
    ELSE IF cp < 2048 THEN <<192 + (cp \div 64), 128 + (cp % 64)>>
    ELSE <<224 + (cp \div 4096), 128 + ((cp \div 64) % 64), 128 + (cp % 64)>>

\* str.encode("utf-8")
RECURSIVE utf8_encode(_)
utf8_encode(text) ==
    IF text = <<>> THEN <<>>
    ELSE utf8_encode_char(Head(text)) \o utf8_encode(Tail(text))

\* a continuation byte
IsContinuation(b) == b >= 128 /\ b < 192

\* the first character of bytes: how many bytes it takes and its code point;
\* len is 0 where the bytes do not begin with a well-formed character
utf8_first_char(bytes) ==
    LET b == bytes[1]
    IN  IF b < 128 THEN [len |-> 1, cp |-> b]
        ELSE IF b >= 194 /\ b < 224 /\ Len(bytes) >= 2 /\ IsContinuation(bytes[2])
        THEN [len |-> 2, cp |-> (b - 192) * 64 + (bytes[2] - 128)]
        ELSE IF /\ b >= 224 /\ b < 240 /\ Len(bytes) >= 3
                /\ IsContinuation(bytes[2]) /\ IsContinuation(bytes[3])
                /\ (b - 224) * 4096 + (bytes[2] - 128) * 64 >= 2048
                /\ ~((b - 224) * 4096 + (bytes[2] - 128) * 64 \in 55296..57343)
        THEN [len |-> 3,
              cp |-> (b - 224) * 4096 + (bytes[2] - 128) * 64 + (bytes[3] - 128)]
        ELSE [len |-> 0, cp |-> 0]

\* a decoder that takes every byte for a character of its own
RECURSIVE latin1_decode(_)
latin1_decode(bytes) ==
    IF bytes = <<>> THEN [exc |-> None, text |-> <<>>]
    ELSE [exc |-> None, text |-> <<Head(bytes)>> \o latin1_decode(Tail(bytes)).text]

\* bytes.decode("utf-8"): the text, or the UnicodeDecodeError it raises
RECURSIVE utf8_decode(_)
utf8_decode(bytes) ==
    IF bytes = <<>> THEN [exc |-> None, text |-> <<>>]
    ELSE LET first == utf8_first_char(bytes)
             rest == utf8_decode(SubSeq(bytes, first.len + 1, Len(bytes)))
         IN  IF first.len = 0 \/ rest.exc # None
             THEN [exc |-> "UnicodeDecodeError", text |-> <<>>]
             ELSE [exc |-> None, text |-> <<first.cp>> \o rest.text]

\* a ^ b for two bytes
RECURSIVE xor(_, _)
xor(a, b) ==
    IF a = 0 /\ b = 0 THEN 0
    ELSE ((a + b) % 2) + 2 * xor(a \div 2, b \div 2)

\* ENCRYPTION_IV = b"0000000000101111"
ENCRYPTION_IV == <<48, 48, 48, 48, 48, 48, 48, 48, 48, 48, 49, 48, 49, 49, 49, 49>>

\* SR_KEY = "SR-DALI-GW-HASYS"
SR_KEY == <<83, 82, 45, 68, 65, 76, 73, 45, 71, 87, 45, 72, 65, 83, 89, 83>>

\* byte i of the key stream of Cipher(algorithms.AES(key_bytes),
\* modes.CTR(ENCRYPTION_IV)). The block cipher is the library's: the model
\* puts a function of the key, the counter block and the position in its
\* place, which is all that the stream depends on.
key_stream(key_bytes, i) ==
    LET block == (i - 1) \div 16
        at == ((i - 1) % 16) + 1
    IN  (key_bytes[at] * 7 + ENCRYPTION_IV[at] * 3 + block * 29 + at * 11
         + key_bytes[((at + block) % 16) + 1]) % 256

\* encryptor.update(data) + encryptor.finalize(), and the same of the
\* decryptor: CTR mode combines every byte with the key stream
ctr_update(key_bytes, data) ==
    [i \in 1..Len(data) |-> xor(data[i], key_stream(key_bytes, i))]

HexDigits == <<"0", "1", "2", "3", "4", "5", "6", "7",
               "8", "9", "a", "b", "c", "d", "e", "f">>

\* bytes.hex(): two digits for every byte
RECURSIVE hex(_)
hex(bytes) ==
    IF bytes = <<>> THEN <<>>
    ELSE <<HexDigits[(Head(bytes) \div 16) + 1], HexDigits[(Head(bytes) % 16) + 1]>>
         \o hex(Tail(bytes))

\* the value of a hex digit, -1 for another character
hex_value(digit) ==
    IF \E v \in 1..16 : HexDigits[v] = digit
    THEN (CHOOSE v \in 1..16 : HexDigits[v] = digit) - 1
    ELSE -1

\* bytes.fromhex(): the bytes, or the ValueError it raises
fromhex(hex_text) ==
    IF Len(hex_text) % 2 # 0 \/ \E i \in 1..Len(hex_text) : hex_value(hex_text[i]) < 0
    THEN [exc |-> "ValueError", bytes |-> <<>>]
    ELSE [exc |-> None,
          bytes |-> [i \in 1..(Len(hex_text) \div 2) |->
                        hex_value(hex_text[2 * i - 1]) * 16 + hex_value(hex_text[2 * i])]]

\* MessageCryptor.encrypt_data
encrypt_data(data, key) ==
    hex(ctr_update(utf8_encode(key), utf8_encode(data)))

\* MessageCryptor.decrypt_data with its key: the text, or the exception of
\* bytes.fromhex or of decode
cryptor_decrypt_data(encrypted_hex, key) ==
    LET encrypted_bytes == fromhex(encrypted_hex)
    IN  IF encrypted_bytes.exc # None
        THEN [exc |-> encrypted_bytes.exc, text |-> <<>>]
        ELSE utf8_decode(ctr_update(utf8_encode(key), encrypted_bytes.bytes))

\* a call of encrypt_data
encrypt(data, key) ==
    /\ last_crypt' = [op |-> "encrypt_data", data |-> data, key |-> key,
                      result |-> encrypt_data(data, key), exc |-> None]
    /\ UNCHANGED <<batch_vars, window_calls, published, conn_vars, listener_vars,
                   discovery_vars, last_inbound, on_energy_report, energy_events,
                   registered, device_vars, identify_vars, udp_vars, paho_thread>>

\* a call of decrypt_data on the hex text the last encrypt_data call
\* returned, with the key of that call
decrypt_encrypted ==
    /\ last_crypt.op = "encrypt_data"
    /\ LET decrypted == cryptor_decrypt_data(last_crypt.result, last_crypt.key)
       IN  last_crypt' = [op |-> "decrypt_data", data |-> last_crypt.data,
                          key |-> last_crypt.key, result |-> decrypted.text,
                          exc |-> decrypted.exc]
    /\ UNCHANGED <<batch_vars, window_calls, published, conn_vars, listener_vars,
                   discovery_vars, last_inbound, on_energy_report, energy_events,
                   registered, device_vars, identify_vars, udp_vars, paho_thread>>

----------------------------------------------------------------------------
(* The broker client's thread: the callbacks step by step *)

\* loop_start() starts a thread of the client, which calls _on_connect and
\* _on_message; connect(), the discover_* coroutines, add_request and
\* _flush_batch run on the event loop. The actions of this section follow the
\* thread through a callback, so that the loop can run between its steps.

\* the thread is in no callback
ThreadIdle == [at |-> "idle", rc |-> 0, todo |-> <<>>, search_status |-> 0]

\* _on_connect(rc), its first two statements: the result is kept and the
\* signal set
on_connect_signal(rc) ==
    /\ loop_running
    /\ link = "connecting"
    /\ paho_thread = ThreadIdle
    /\ connect_result' = <<rc>>
    /\ connection_event' = TRUE
    /\ link' = IF rc = 0 THEN "established" ELSE "closed"
    /\ paho_thread' = [ThreadIdle EXCEPT !.at = "_on_connect", !.rc = rc]
    /\ UNCHANGED <<batch_vars, window_calls, published, listener_vars, discovery_vars,
                   handler_vars, subscribed, pc_connect, wait_elapsed, loop_running,
                   last_call>>

\* _on_connect, the rest: "if rc == 0: self._mqtt_client.subscribe(...)"; a
\* subscribe without an established connection has no effect
on_connect_subscribe ==
    /\ paho_thread.at = "_on_connect"
    /\ subscribed' = IF paho_thread.rc = 0 /\ link = "established"
                     THEN {sub_topic}
                     ELSE subscribed
    /\ paho_thread' = ThreadIdle
    /\ UNCHANGED <<batch_vars, window_calls, published, listener_vars, discovery_vars,
                   handler_vars, connect_result, connection_event, pc_connect,
                   wait_elapsed, loop_running, link, last_call>>

\* _on_message for a searchDevRes with both of its fields, up to the loop of
\* _process_search_device_response: the payload is parsed and the handler
\* looked up
search_device_received(msg) ==
    /\ loop_running
    /\ link = "established"
    /\ sub_topic \in subscribed
    /\ paho_thread = ThreadIdle
    /\ HandlerFor(msg) = "_process_search_device_response"
    /\ search_device_error(json_loads(msg).value) = None
    /\ paho_thread' = [ThreadIdle EXCEPT
                          !.at = "_process_search_device_response",
                          !.todo = json_loads(msg).value.data,
                          !.search_status = json_loads(msg).value.searchStatus]
    /\ UNCHANGED <<batch_vars, window_calls, published, conn_vars, listener_vars,
                   discovery_vars, handler_vars>>

\* _process_search_device_response, one turn of its loop, and after the last
\* turn the signal and the return
search_device_step ==
    /\ paho_thread.at = "_process_search_device_response"
    /\ IF paho_thread.todo # <<>>
       THEN /\ devices_result' =
                   AppendAbsent(devices_result, <<DeviceType(Head(paho_thread.todo))>>)
            /\ paho_thread' = [paho_thread EXCEPT !.todo = Tail(paho_thread.todo)]
            /\ UNCHANGED <<received, last_inbound>>
       ELSE /\ received' = IF search_status_is_final(paho_thread.search_status)
                           THEN [received EXCEPT !["devices"] = TRUE]
                           ELSE received
            /\ last_inbound' = [cmd |-> "searchDevRes", error |-> None,
                                escaped |-> FALSE]
            /\ paho_thread' = ThreadIdle
            /\ UNCHANGED devices_result
    /\ UNCHANGED <<batch_vars, window_calls, published, conn_vars, listener_vars,
                   scenes_result, groups_result, version_result, wait_vars,
                   gateway_vars, on_energy_report, energy_events, registered,
                   device_vars, identify_vars, udp_vars, last_crypt>>

----------------------------------------------------------------------------
(* Specifications *)

Init ==
    /\ pending_requests = <<>>
    /\ batch_timer = <<>>
    /\ loop_timers = <<>>
    /\ published = <<>>
    /\ connect_result = <<>>
    /\ connection_event = FALSE
    /\ pc_connect = "idle"
    /\ wait_elapsed = 0
    /\ loop_running = FALSE
    /\ link = "closed"
    /\ subscribed = {}
    /\ on_online_status = None
    /\ online_events = <<>>
    /\ last_call = Returned("none")
    /\ window_calls = <<>>
    /\ received = [kind \in Kinds |-> FALSE]
    /\ devices_result = <<>>
    /\ scenes_result = <<>>
    /\ groups_result = <<>>
    /\ version_result = <<>>
    /\ pc_discover = "idle"
    /\ discover_elapsed = 0
    /\ last_discover = [op |-> "none", raised |-> FALSE, timed_out |-> FALSE,
                        result |-> <<>>]
    /\ waiting_request = 0
    /\ gateway_requests = {}
    /\ signalled_by = [kind \in Kinds |-> 0]
    /\ last_inbound = [cmd |-> None, error |-> None, escaped |-> FALSE]
    /\ on_energy_report = None
    /\ energy_events = <<>>
    /\ registered = <<>>
    /\ on_device_status = None
    /\ device_events = <<>>
    /\ identify_received = FALSE
    /\ identify_ack = FALSE
    /\ pc_identify = "idle"
    /\ identify_elapsed = 0
    /\ last_identify = [op |-> "none", timed_out |-> FALSE, result |-> FALSE]
    /\ interfaces = <<>>
    /\ listen_sock = "none"
    /\ socket_queue = <<>>
    /\ pc_gateways = "idle"
    /\ gateways_elapsed = 0
    /\ first_gateway_found = FALSE
    /\ unique_gateways = <<>>
    /\ seen_sns = {}
    /\ sender_task = "none"
    /\ receiver_task = "none"
    /\ last_gateways = [op |-> "none", raised |-> FALSE, result |-> <<>>]
    /\ received_datagrams = <<>>
    /\ paho_thread = ThreadIdle
    /\ last_crypt = [op |-> "none", data |-> <<>>, key |-> <<>>, result |-> <<>>,
                     exc |-> None]

\* the request dispatcher alone; window_calls keeps the calls of the open windows
RecordCall(cmd, d, data) ==
    /\ Len(window_calls) < MaxCalls
    /\ window_calls' = Append(window_calls, [cmd |-> cmd, device |-> d, data |-> data])

ReadDev ==
    \E d \in Devices :
        /\ command_read_dev(d[1], d[2], d[3])
        /\ RecordCall("readDev", d,
                      [devType |-> d[1], channel |-> d[2], address |-> d[3]])

WriteDev ==
    \E d \in Devices, p \in PropertyLists :
        /\ command_write_dev(d[1], d[2], d[3], p)
        /\ RecordCall("writeDev", d,
                      [devType |-> d[1], channel |-> d[2], address |-> d[3],
                       property |-> p])

NextBatch == ReadDev \/ WriteDev \/ TimerFires

SpecBatch == Init /\ [][NextBatch]_vars

\* the session
SessionReadDev ==
    \E d \in SessionDevices :
        command_read_dev(d[1], d[2], d[3]) /\ UNCHANGED window_calls

SessionWriteDev ==
    \E d \in SessionDevices, p \in SessionPropertyLists :
        command_write_dev(d[1], d[2], d[3], p) /\ UNCHANGED window_calls

WriteGroup ==
    \E g \in GroupIds, c \in GroupChannels, p \in SessionPropertyLists :
        command_write_group(g, c, p)

OnConnect == \E rc \in ConnackCodes : on_connect(rc)

OnDisconnect == \E reason_code \in DisconnectReasons : on_disconnect(reason_code)

OnMessage ==
    \E msg \in OnlineStatusMessages :
        on_message(msg, NoRaise) /\ UNCHANGED gateway_vars

SessionSetOnlineStatus == set_on_online_status("listener") /\ UNCHANGED registered

Next ==
    \/ ConnectBegin \/ Tick \/ ConnectTimeout \/ ConnectResume \/ disconnect
    \/ OnConnect \/ OnDisconnect \/ OnMessage \/ SessionSetOnlineStatus
    \/ SessionReadDev \/ SessionWriteDev \/ WriteGroup \/ TimerFires

Spec == Init /\ [][Next]_vars

\* the raw entries of searchDevRes, and the messages built from them
RawDevice(address) ==
    [devType |-> "0101", channel |-> 0, address |-> address,
     name |-> "Lamp " \o ToString(address), status |-> "online"]

SearchDevRes(data, search_status) ==
    [text |-> "object",
     value |-> [cmd |-> "searchDevRes", data |-> data, searchStatus |-> search_status]]

GetSceneRes(scene) ==
    [text |-> "object", value |-> [cmd |-> "getSceneRes", scene |-> scene]]

GetGroupRes(group) ==
    [text |-> "object", value |-> [cmd |-> "getGroupRes", group |-> group]]

GetVersionRes ==
    [text |-> "object",
     value |-> [cmd |-> "getVersionRes",
                data |-> [swVersion |-> "1.2", fwVersion |-> "3.4"]]]

SceneEntry(scene_id) == [sceneId |-> scene_id, name |-> "Scene " \o ToString(scene_id)]
GroupEntry(group_id) == [groupId |-> group_id, name |-> "Group " \o ToString(group_id)]

\* the responses the gateway gives to a request of each kind; for a search
\* the last two end it
Responses(kind) ==
    CASE kind = "version" -> <<GetVersionRes>>
      [] kind = "devices" -> <<SearchDevRes(<<RawDevice(1)>>, 2),
                               SearchDevRes(<<RawDevice(2)>>, 1),
                               SearchDevRes(<<>>, 0)>>
      [] kind = "groups" -> <<GetGroupRes(<<[channel |-> 0, data |-> <<GroupEntry(5)>>]>>)>>
      [] kind = "scenes" -> <<GetSceneRes(<<[channel |-> 0, data |-> <<SceneEntry(1)>>]>>)>>

\* the gateway is done with the request once it has sent this response
Terminal(msg) ==
    msg.value.cmd = "searchDevRes" => msg.value.searchStatus \in {0, 1}

\* get_version and the discover_* coroutines with the gateway that answers
\* them: a request published on an established connection reaches the
\* gateway, which answers each request it has received, sooner or later
Discover ==
    \E kind \in Kinds :
        /\ discover_begin(kind)
        /\ gateway_requests' =
               IF loop_running /\ link = "established"
               THEN gateway_requests \cup {[kind |-> kind, req |-> Len(published) + 1]}
               ELSE gateway_requests
        /\ signalled_by' = [signalled_by EXCEPT ![kind] = 0]

GatewayResponds ==
    \E r \in gateway_requests :
        \E i \in DOMAIN Responses(r.kind) :
            /\ on_message(Responses(r.kind)[i], NoRaise)
            /\ gateway_requests' = IF Terminal(Responses(r.kind)[i])
                                   THEN gateway_requests \ {r}
                                   ELSE gateway_requests
            /\ signalled_by' = IF ~received[r.kind] /\ received'[r.kind]
                               THEN [signalled_by EXCEPT ![r.kind] = r.req]
                               ELSE signalled_by

AcceptedOnConnect == on_connect(0)

NextDiscovery ==
    \/ ConnectBegin \/ AcceptedOnConnect \/ ConnectResume \/ disconnect
    \/ Discover \/ DiscoverTick \/ DiscoverTimeout \/ DiscoverResume
    \/ GatewayResponds

SpecDiscovery == Init /\ [][NextDiscovery]_vars

\* inbound messages: those _on_message is to ignore, those for the result
\* lists and signals, and one for the online-status listener
InboundMessages ==
    <<[text |-> "invalid"],
      [text |-> "array", value |-> <<>>],
      [text |-> "object", value |-> [msgId |-> "1"]],
      [text |-> "object", value |-> [cmd |-> "", msgId |-> "1"]],
      [text |-> "object", value |-> [cmd |-> "factoryReset", msgId |-> "1"]],
      SearchDevRes(<<RawDevice(1)>>, 2),
      SearchDevRes(<<RawDevice(2)>>, 1),
      [text |-> "object",
       value |-> [cmd |-> "searchDevRes", data |-> <<RawDevice(1)>>]],
      [text |-> "object", value |-> [cmd |-> "searchDevRes", searchStatus |-> 1]],
      GetSceneRes(<<[channel |-> 0, data |-> <<SceneEntry(1)>>],
                    [channel |-> 1, data |-> <<SceneEntry(2)>>]>>),
      GetSceneRes(<<[channel |-> 0, data |-> <<SceneEntry(3)>>]>>),
      [text |-> "object", value |-> [cmd |-> "getSceneRes", msgId |-> "1"]],
      GetGroupRes(<<[channel |-> 0, data |-> <<GroupEntry(5)>>],
                    [channel |-> 1, data |-> <<GroupEntry(6)>>]>>),
      [text |-> "object", value |-> [cmd |-> "getGroupRes", msgId |-> "1"]],
      GetVersionRes,
      [text |-> "object",
       value |-> [cmd |-> "onlineStatus",
                  data |-> <<[devType |-> "0101", channel |-> 0, address |-> 1,
                              status |-> TRUE]>>]]>>

InboundMessage ==
    \E i \in DOMAIN InboundMessages :
        on_message(InboundMessages[i], NoRaise) /\ UNCHANGED gateway_vars

NextInbound ==
    \/ ConnectBegin \/ AcceptedOnConnect \/ ConnectResume
    \/ SessionSetOnlineStatus \/ InboundMessage

SpecInbound == Init /\ [][NextInbound]_vars

\* the listeners and the messages that reach them
Listeners == {"listener", "listener_b"}

OnlineStatus(data) ==
    [text |-> "object", value |-> [cmd |-> "onlineStatus", data |-> data]]

OnlineEntry(address, status) ==
    [devType |-> "0101", channel |-> 0, address |-> address, status |-> status]

ReportEnergy(property) ==
    [text |-> "object",
     value |-> [cmd |-> "reportEnergy",
                data |-> [devType |-> "0101", channel |-> 0, address |-> 1,
                          property |-> property]]]

CallbackMessages ==
    <<OnlineStatus(<<OnlineEntry(1, TRUE), OnlineEntry(2, FALSE)>>),
      OnlineStatus(<<OnlineEntry(1, FALSE)>>),
      ReportEnergy(<<[dpid |-> 30, value |-> "1.5"], [dpid |-> 30, value |-> "2.5"]>>),
      [text |-> "invalid"]>>

\* each callback is given to the setter once; registered keeps them in order
SetOnlineStatus ==
    \E callback \in Listeners :
        /\ ~In(callback, registered)
        /\ set_on_online_status(callback)
        /\ registered' = Append(registered, callback)

SetEnergyReport == set_on_energy_report("listener")

CallbackMessage ==
    \E i \in DOMAIN CallbackMessages, behaviour \in Behaviours :
        on_message(CallbackMessages[i], behaviour) /\ UNCHANGED gateway_vars

NextCallbacks ==
    \/ ConnectBegin \/ AcceptedOnConnect \/ ConnectResume
    \/ SetOnlineStatus \/ SetEnergyReport \/ CallbackMessage

SpecCallbacks == Init /\ [][NextCallbacks]_vars

\* one online-status listener, which may raise, and the onlineStatus messages
OnlineStatusBatch ==
    \E i \in DOMAIN CallbackMessages, behaviour \in Behaviours :
        /\ CmdOf(CallbackMessages[i]) = "onlineStatus"
        /\ on_message(CallbackMessages[i], behaviour)
        /\ UNCHANGED gateway_vars

NextOnlineStatus ==
    \/ ConnectBegin \/ AcceptedOnConnect \/ ConnectResume
    \/ SessionSetOnlineStatus \/ OnlineStatusBatch

SpecOnlineStatus == Init /\ [][NextOnlineStatus]_vars

\* the device-status listener and the devStatus / readDevRes messages
Brightness(value) == [dpid |-> 22, dataType |-> "uint16", value |-> value]
ColorTemp(value) == [dpid |-> 23, dataType |-> "uint16", value |-> value]

DeviceStatus(cmd, data) == [text |-> "object", value |-> [cmd |-> cmd, data |-> data]]

DeviceStatusMessages ==
    <<DeviceStatus("devStatus", [devType |-> "0101", channel |-> 0, address |-> 1,
                                 property |-> <<Brightness(500), ColorTemp(3000)>>]),
      DeviceStatus("readDevRes", [devType |-> "0101", channel |-> 0, address |-> 2,
                                  property |-> <<Brightness(0)>>]),
      DeviceStatus("devStatus", [devType |-> "0101", channel |-> 1, address |-> 1]),
      [text |-> "object", value |-> [cmd |-> "devStatus", msgId |-> "1"]],
      [text |-> "object", value |-> [cmd |-> "readDevRes", msgId |-> "1"]],
      DeviceStatus("readDevRes", <<>>)>>

SetDeviceStatus == set_on_device_status("listener")

DeviceStatusMessage ==
    \E i \in DOMAIN DeviceStatusMessages, behaviour \in Behaviours :
        on_message(DeviceStatusMessages[i], behaviour) /\ UNCHANGED gateway_vars

NextDeviceStatus ==
    \/ ConnectBegin \/ AcceptedOnConnect \/ ConnectResume
    \/ SetDeviceStatus \/ DeviceStatusMessage

SpecDeviceStatus == Init /\ [][NextDeviceStatus]_vars

\* the test gateway waiting for the answer to an identify command
IdentifyDevRes(ack) ==
    [text |-> "object", value |-> [cmd |-> "identifyDevRes", msgId |-> "1", ack |-> ack]]

IdentifyMessages ==
    <<IdentifyDevRes(TRUE),
      IdentifyDevRes(FALSE),
      [text |-> "object", value |-> [cmd |-> "writeDevRes", msgId |-> "1", ack |-> TRUE]],
      DeviceStatus("devStatus", [devType |-> "0101", channel |-> 0, address |-> 1,
                                 property |-> <<Brightness(500)>>])>>

IdentifyMessage ==
    \E i \in DOMAIN IdentifyMessages :
        on_message(IdentifyMessages[i], NoRaise) /\ UNCHANGED gateway_vars

NextIdentify ==
    \/ ConnectBegin \/ AcceptedOnConnect \/ ConnectResume \/ disconnect
    \/ SetDeviceStatus \/ IdentifyMessage
    \/ wait_for_identify_begin \/ IdentifyTick \/ wait_for_identify_end

SpecIdentify == Init /\ [][NextIdentify]_vars

\* every command that publishes: the batched readDev / writeDev, the group,
\* scene and sensor commands, get_version and the discover_* requests
SceneIds == {1}
Sensors == {<<"0201", 0, 3>>}

WriteScene ==
    \E scene_id \in SceneIds, c \in GroupChannels : command_write_scene(scene_id, c)

SetSensorOnOff ==
    \E d \in Sensors, value \in BOOLEAN :
        command_set_sensor_on_off(d[1], d[2], d[3], value)

GetSensorOnOff ==
    \E d \in Sensors : command_get_sensor_on_off(d[1], d[2], d[3])

NextPublish ==
    \/ ConnectBegin \/ AcceptedOnConnect \/ ConnectResume
    \/ SessionReadDev \/ SessionWriteDev \/ TimerFires
    \/ WriteGroup \/ WriteScene \/ SetSensorOnOff \/ GetSensorOnOff
    \/ Discover \/ DiscoverTick \/ DiscoverTimeout

SpecPublish == Init /\ [][NextPublish]_vars

\* the groups: command_write_group, turn_on and turn_off, next to a batched
\* writeDev
AllGroupIds == {5, 6}
BrightnessValues == {<<>>, <<0>>, <<500>>, <<1000>>, <<1001>>, <<-1>>}
ColorTemps == {<<>>, <<3000>>}
RgbwColors == {<<>>, <<0, 0, 0, 128>>, <<255, 0, 0, 0>>}

WriteAnyGroup ==
    \E g \in AllGroupIds, c \in GroupChannels, p \in PropertyLists :
        command_write_group(g, c, p)

TurnOn ==
    \E g \in GroupIds, c \in GroupChannels, brightness \in BrightnessValues,
       color_temp_kelvin \in ColorTemps, rgbw_color \in RgbwColors :
        turn_on(g, c, brightness, color_temp_kelvin, rgbw_color)

TurnOff == \E g \in GroupIds, c \in GroupChannels : turn_off(g, c)

NextGroup ==
    \/ ConnectBegin \/ AcceptedOnConnect \/ ConnectResume
    \/ SessionWriteDev \/ TimerFires
    \/ WriteAnyGroup \/ TurnOn \/ TurnOff

SpecGroup == Init /\ [][NextGroup]_vars

\* discover_gateways on a host with these addresses, and the datagrams that
\* reach its listener socket
Loopback == [name |-> "lo", address |-> <<127, 0, 0, 1>>]
LinkLocal == [name |-> "eth1", address |-> <<169, 254, 10, 20>>]
Lan == [name |-> "eth0", address |-> <<192, 168, 1, 10>>]

HostAddresses == {<<Loopback>>, <<Loopback, LinkLocal>>, <<Loopback, Lan>>}

RawGateway(sn, ip, username) ==
    [gwSn |-> sn, gwIp |-> ip, port |-> 1883, isMqttTls |-> FALSE, name |-> "",
     username |-> username, passwd |-> "b4c5d6", channelTotal |-> <<0, 1>>]

Response(raw_data) == [bytes |-> "utf8", text |-> "object", data |-> <<raw_data>>]

ValidDatagrams ==
    {Response(RawGateway("GW1", "10.0.0.1", "e1f2a3")),
     Response(RawGateway("GW1", "10.0.0.2", "e1f2a3")),
     Response(RawGateway("GW2", "10.0.0.3", "e1f2a3"))}

MalformedDatagrams ==
    {[bytes |-> "binary", text |-> "invalid", data |-> <<>>],
     [bytes |-> "utf8", text |-> "invalid", data |-> <<>>],
     [bytes |-> "utf8", text |-> "array", data |-> <<>>],
     [bytes |-> "utf8", text |-> "object", data |-> <<>>],
     Response(RawGateway("GW1", "10.0.0.1", "not hex"))}

DiscoverGateways == \E addrs \in HostAddresses : discover_gateways_begin(addrs)

DatagramArrives ==
    \E datagram \in ValidDatagrams \cup MalformedDatagrams : datagram_arrives(datagram)

NextGateways ==
    \/ DiscoverGateways \/ DatagramArrives \/ GatewaysTick
    \/ receiver_loop \/ sender_loop \/ run_discovery_resume \/ discover_gateways_return

SpecGateways == Init /\ [][NextGateways]_vars

\* the same with the event loop that runs every task that can run, and with
\* time that goes on
SpecGatewaysFair ==
    /\ SpecGateways
    /\ WF_vars(GatewaysTick)
    /\ WF_vars(receiver_loop)
    /\ WF_vars(sender_loop)
    /\ WF_vars(run_discovery_resume)
    /\ WF_vars(discover_gateways_return)

\* MessageCryptor alone: texts of up to MaxText characters of one, two and
\* three bytes, and keys of 16 bytes
CodePoints == {48, 65, 233, 8364}

Texts == UNION {[1..n -> CodePoints] : n \in 0..MaxText}

Keys ==
    {SR_KEY,
     <<97, 48, 102, 57, 99, 51, 100, 49, 101, 50, 98, 52, 53, 54, 55, 56>>,
     <<233, 75, 69, 89, 45, 49, 54, 45, 66, 89, 84, 69, 83, 33, 33>>}

Encrypt == \E data \in Texts, key \in Keys : encrypt(data, key)

NextCryptor == Encrypt \/ decrypt_encrypted

SpecCryptor == Init /\ [][NextCryptor]_vars

\* the request dispatcher with a publish that may raise
NextFlush == ReadDev \/ WriteDev \/ TimerFires \/ flush_batch_raises

SpecFlush == Init /\ [][NextFlush]_vars

\* the session with the callbacks of the broker client's thread taken step
\* by step. loop_stop() in disconnect() joins the thread, so it returns when
\* the thread is in no callback.
ThreadOnConnect == \E rc \in ConnackCodes : on_connect_signal(rc)

ThreadSearchDevRes ==
    search_device_received(SearchDevRes(<<RawDevice(1), RawDevice(2)>>, 1))

ThreadDisconnect == paho_thread = ThreadIdle /\ disconnect

DiscoverDevices == discover_begin("devices") /\ UNCHANGED gateway_vars

NextThreads ==
    \/ ConnectBegin \/ Tick \/ ConnectTimeout \/ ConnectResume \/ ThreadDisconnect
    \/ ThreadOnConnect \/ on_connect_subscribe
    \/ ThreadSearchDevRes \/ search_device_step
    \/ DiscoverDevices \/ DiscoverTick \/ DiscoverTimeout \/ DiscoverResume
    \/ SessionReadDev \/ TimerFires

SpecThreads == Init /\ [][NextThreads]_vars

\* discover_devices calls and searchDevRes messages that report the same
\* devices again, within one message and from one message to the next
DeviceResponses ==
    <<SearchDevRes(<<RawDevice(1), RawDevice(1)>>, 2),
      SearchDevRes(<<RawDevice(2), RawDevice(1)>>, 1),
      SearchDevRes(<<>>, 0)>>

DeviceResponse ==
    \E i \in DOMAIN DeviceResponses :
        on_message(DeviceResponses[i], NoRaise) /\ UNCHANGED gateway_vars

NextDevices ==
    \/ ConnectBegin \/ AcceptedOnConnect \/ ConnectResume
    \/ DiscoverDevices \/ DiscoverTick \/ DiscoverTimeout \/ DiscoverResume
    \/ DeviceResponse

SpecDevices == Init /\ [][NextDevices]_vars

\* discover_scenes and discover_groups with a gateway that has a scene and a
\* group to report until the first request has been published, and reports
\* no channels, or channels without data, at any time
SceneGroupResponses ==
    <<GetSceneRes(<<[channel |-> 0, data |-> <<SceneEntry(1)>>]>>),
      GetGroupRes(<<[channel |-> 0, data |-> <<GroupEntry(5)>>]>>),
      GetSceneRes(<<>>),
      GetSceneRes(<<[channel |-> 0], [channel |-> 1]>>),
      GetGroupRes(<<>>),
      GetGroupRes(<<[channel |-> 0], [channel |-> 1]>>)>>

SceneGroupResponse ==
    \E i \in DOMAIN SceneGroupResponses :
        /\ i <= 2 => Len(published) <= 1
        /\ on_message(SceneGroupResponses[i], NoRaise)
        /\ UNCHANGED gateway_vars

DiscoverScenesOrGroups ==
    \E kind \in {"scenes", "groups"} : discover_begin(kind) /\ UNCHANGED gateway_vars

NextScenes ==
    \/ ConnectBegin \/ AcceptedOnConnect \/ ConnectResume
    \/ DiscoverScenesOrGroups \/ DiscoverTick \/ DiscoverTimeout \/ DiscoverResume
    \/ SceneGroupResponse

SpecScenes == Init /\ [][NextScenes]_vars

----------------------------------------------------------------------------
(* Properties *)

Last(seq) == seq[Len(seq)]

\* a flush timer has fired in this step
Fired == Len(loop_timers') < Len(loop_timers)

\* the payloads the dict pending holds for cmd, in the order of the dict
PayloadsIn(pending, cmd) ==
    IF DictHas(pending, cmd) THEN DictValues(DictAt(pending, cmd)) ELSE <<>>

PendingPayloads(cmd) == PayloadsIn(pending_requests, cmd)

\* the scheduled timers that will flush cmd
TimersFor(cmd) == {i \in 1..Len(loop_timers) : loop_timers[i].arg = cmd}

OneTimerPerCommand == \A cmd \in BatchCmds : Cardinality(TimersFor(cmd)) <= 1

CallsFor(calls, cmd) == SelectSeq(calls, LAMBDA c : c.cmd = cmd)

\* the distinct elements of seq in the order of their first occurrence
FirstOccurrences(seq) ==
    LET firsts == {i \in 1..Len(seq) : \A j \in 1..(i - 1) : seq[j] # seq[i]}
        nth(k) == CHOOSE i \in firsts : Cardinality({j \in firsts : j <= i}) = k
    IN  [k \in 1..Cardinality(firsts) |-> seq[nth(k)]]

\* the payload of the latest call for device d in calls
LatestPayload(calls, d) ==
    LET last == CHOOSE i \in 1..Len(calls) :
                    /\ calls[i].device = d
                    /\ \A j \in (i + 1)..Len(calls) : calls[j].device # d
    IN  calls[last].data

\* what a window of calls is to coalesce to: one entry per device, in the
\* order of the devices' first calls, each the payload of the device's latest call
Coalesced(calls) ==
    LET devices == FirstOccurrences([i \in 1..Len(calls) |-> calls[i].device])
    IN  [k \in 1..Len(devices) |-> LatestPayload(calls, devices[k])]

DistinctDevices(calls) == {calls[i].device : i \in 1..Len(calls)}

\* the pending entries of each command are its open window, coalesced
PendingIsCoalesced(pending, calls) ==
    \A cmd \in BatchCmds : PayloadsIn(pending, cmd) = Coalesced(CallsFor(calls, cmd))

ReadPayload(channel, address) ==
    [devType |-> "0101", channel |-> channel, address |-> address]

Connected == last_call.op = "connect" /\ ~last_call.raised

\* C3: every publish happens while the session is connected.
C3_PublishOnlyWhenConnected ==
    [][Len(published') > Len(published) => Connected]_vars

\* connect() returns or raises in this step, after its wait
ConnectEnds == pc_connect = "waiting" /\ pc_connect' = "idle"

\* the listener call e reports the gateway itself as available or not
GatewayEvent(e, available) == e.dev_id = gw_sn /\ e.available = available

\* C4: when connect() returns after result code 0, the online-status listener
\* has been called with ONLINE for the gateway serial.
C4_OnlineBeforeConnectReturns ==
    [][ (ConnectEnds /\ ~last_call'.raised /\ on_online_status # None) =>
            \E i \in 1..Len(online_events') : GatewayEvent(online_events'[i], TRUE)
      ]_vars

\* C5: when disconnect() is called on a connected session, the listener has
\* been called with OFFLINE for the gateway serial when disconnect() returns,
\* and that is the last event delivered.
C5_OfflineBeforeDisconnectReturns ==
    [][ (Connected /\ last_call'.op = "disconnect" /\ on_online_status # None) =>
            /\ online_events' # <<>>
            /\ GatewayEvent(Last(online_events'), FALSE)
      ]_vars

\* the disconnect callback fires with a non-zero reason code in this step
ConnectionLost ==
    /\ link = "established" /\ link' = "closed"
    /\ loop_running /\ last_call' = last_call /\ connect_result' = connect_result

\* C6: when the connection is lost without disconnect(), OFFLINE for the
\* gateway serial is delivered and the session ends closed.
C6_OfflineOnConnectionLost ==
    [][ (ConnectionLost /\ on_online_status # None) =>
            /\ online_events' # <<>>
            /\ GatewayEvent(Last(online_events'), FALSE)
            /\ ~loop_running'
      ]_vars

\* C7: connect() fails with AUTH_REQUIRED on result code 4 and with
\* AUTH_INVALID_CREDENTIALS on result code 5.
C7_AuthErrorCode ==
    [][ (ConnectEnds /\ connection_event /\ connect_result \in {<<4>>, <<5>>}) =>
            /\ last_call'.raised
            /\ last_call'.error_code = get_mqtt_error_code(connect_result[1])
      ]_vars

\* C8: after connect() has failed on result code 4 the session is closed: the
\* I/O pump the attempt started no longer runs.
C8_ClosedAfterAuthFailure ==
    [][ (ConnectEnds /\ connection_event /\ connect_result = <<4>>) =>
            /\ last_call'.raised
            /\ ~loop_running'
            /\ link' = "closed"
      ]_vars

C10_NothingPendingAfterDisconnect ==
    [][ (last_call'.op = "disconnect" /\ last_call' # last_call) =>
            /\ loop_timers' = <<>>
            /\ \A cmd \in BatchCmds : PayloadsIn(pending_requests', cmd) = <<>>
      ]_vars

\* the waiting get_version / discover_* call ends in this step
DiscoverEnds == pc_discover # "idle" /\ pc_discover' = "idle"

\* disconnect() stops the running I/O pump in this step
Closes == loop_running /\ ~loop_running' /\ last_call'.op = "disconnect"

\* C11: when disconnect() is called while a get_version or discover_* call is
\* waiting, the close sets the completion signal of that call, so that the
\* wait ends without running to its 30 s timeout.
C11_CloseEndsDiscoveryWait ==
    [][ (Closes /\ pc_discover # "idle") => received'[pc_discover] ]_vars

\* C12: when no terminal response has arrived within 30 s, the call returns
\* without raising, and what it returns is the result state accumulated up to
\* the deadline.
C12_TimeoutReturnsResult ==
    [][ (DiscoverEnds /\ ~received[pc_discover]) =>
            /\ discover_elapsed = RESPONSE_TIMEOUT
            /\ last_discover'.op = OpName(pc_discover)
            /\ last_discover'.timed_out
            /\ ~last_discover'.raised
            /\ last_discover'.result = ResultOf(pc_discover)
      ]_vars

\* C12 witness: the first discover_devices call has timed out and returned
\* the one device an intermediate response had added.
C12_Witness ==
    /\ pc_discover = "idle"
    /\ Len(published) = 1
    /\ last_discover.op = "discover_devices"
    /\ last_discover.timed_out
    /\ Len(last_discover.result) = 1
    /\ last_discover.result[1].address = 1

\* C13: a call completed by its signal is completed by a response to the
\* request it published itself, never by a response to the request of an
\* earlier call.
C13_CompletedByOwnResponse ==
    [][ (DiscoverEnds /\ received[pc_discover]) =>
            signalled_by[pc_discover] = waiting_request
      ]_vars

\* the devices the entries of a searchDevRes stand for
DevicesOf(msg) == [j \in 1..Len(msg.value.data) |-> DeviceType(msg.value.data[j])]

\* list begins with the elements of prefix
BeginsWith(list, prefix) ==
    /\ Len(prefix) <= Len(list)
    /\ \A j \in 1..Len(prefix) : list[j] = prefix[j]

\* C14: a searchDevRes with searchStatus 1 or 0 sets the devices signal; one
\* with another searchStatus adds its devices to the devices-result and leaves
\* the signal as it was.
C14_SearchStatusSignals ==
    [][ \A i \in DOMAIN Responses("devices") :
            LET msg == Responses("devices")[i]
            IN  on_message(msg, NoRaise) =>
                    /\ BeginsWith(devices_result', devices_result)
                    /\ \A j \in 1..Len(DevicesOf(msg)) :
                           In(DevicesOf(msg)[j], devices_result')
                    /\ IF msg.value.searchStatus \in {0, 1}
                       THEN received'["devices"]
                       ELSE received' = received
      ]_vars

\* C14 witness: the first discover_devices call is still waiting, with the
\* signal unset, after an intermediate response has added a device.
C14_Witness ==
    /\ pc_discover = "devices"
    /\ Len(published) = 1
    /\ ~received["devices"]
    /\ Len(devices_result) = 1
    /\ gateway_requests # {}

\* msg is a JSON object with this cmd
IsCmd(msg, cmd) ==
    msg.text = "object" /\ "cmd" \in DOMAIN msg.value /\ msg.value.cmd = cmd

\* the channel entries of a getSceneRes / getGroupRes that carry data
WithData(channels) == {c \in 1..Len(channels) : "data" \in DOMAIN channels[c]}

\* the places <<channel entry, item>> of the items the channel entries carry
Items(channels) ==
    {p \in WithData(channels) \X (1..2) : p[2] <= Len(channels[p[1]].data)}

\* list holds each of the wanted entries once, and nothing else
HoldsEntries(list, wanted) ==
    /\ \A e \in wanted : In(e, list)
    /\ \A k \in 1..Len(list) : list[k] \in wanted
    /\ Len(list) = Cardinality(wanted)

ScenesOf(channels) ==
    {SceneType(channels[p[1]].channel, channels[p[1]].data[p[2]]) : p \in Items(channels)}

GroupsOf(channels) ==
    {GroupType(channels[p[1]].channel, channels[p[1]].data[p[2]]) : p \in Items(channels)}

\* C15: handling a getSceneRes (getGroupRes) replaces the scenes-result
\* (groups-result) with the entries of every channel listed in the message,
\* one per scene (group) per channel, and sets the completion signal.
C15_ResultReplacedByAllChannels ==
    [][ \A i \in DOMAIN InboundMessages :
            LET msg == InboundMessages[i]
            IN  /\ (IsCmd(msg, "getSceneRes") /\ "scene" \in DOMAIN msg.value
                        /\ on_message(msg, NoRaise)) =>
                       /\ HoldsEntries(scenes_result', ScenesOf(msg.value.scene))
                       /\ received'["scenes"]
                /\ (IsCmd(msg, "getGroupRes") /\ "group" \in DOMAIN msg.value
                        /\ on_message(msg, NoRaise)) =>
                       /\ HoldsEntries(groups_result', GroupsOf(msg.value.group))
                       /\ received'["groups"]
      ]_vars

\* the cmd values of the handler table
KnownCmds ==
    {"devStatus", "readDevRes", "writeDevRes", "writeGroupRes", "writeSceneRes",
     "onlineStatus", "reportEnergy", "searchDevRes", "getSceneRes", "getGroupRes",
     "getVersionRes", "setSensorOnOffRes", "getSensorOnOffRes"}

\* msg is not valid JSON, or has no cmd, or a cmd outside the handler table
ToBeIgnored(msg) ==
    \/ msg.text # "object"
    \/ "cmd" \notin DOMAIN msg.value
    \/ msg.value.cmd \notin KnownCmds

\* C16: an inbound message that is not valid JSON, has no cmd field or has a
\* cmd outside the handler table invokes no callback, sets no completion
\* signal, leaves the pending batches, the timers and all result lists
\* unchanged, and raises nothing out of _on_message.
C16_UnknownMessagesIgnored ==
    [][ \A i \in DOMAIN InboundMessages :
            (ToBeIgnored(InboundMessages[i]) /\ on_message(InboundMessages[i], NoRaise)) =>
                /\ UNCHANGED <<online_events, energy_events, device_events, result_vars,
                               batch_vars, published>>
                /\ ~last_inbound'.escaped
      ]_vars

\* C16 witness: with a listener set, a device in the devices-result and the
\* devices signal set, a message with the unknown cmd factoryReset has just
\* been handled.
C16_Witness ==
    /\ last_inbound.cmd = "factoryReset"
    /\ on_online_status # None
    /\ devices_result # <<>>
    /\ received["devices"]

\* msg has a cmd of the handler table and lacks a field its handler requires
MissingRequiredField(msg) ==
    \/ IsCmd(msg, "searchDevRes") /\ ~({"data", "searchStatus"} \subseteq DOMAIN msg.value)
    \/ IsCmd(msg, "getSceneRes") /\ "scene" \notin DOMAIN msg.value
    \/ IsCmd(msg, "getGroupRes") /\ "group" \notin DOMAIN msg.value

\* C17: an inbound message with a recognised cmd and a missing required field
\* is dropped as a whole: nothing is raised out of _on_message, no result
\* list changes and no completion signal is set.
C17_IncompleteMessageDropped ==
    [][ \A i \in DOMAIN InboundMessages :
            (MissingRequiredField(InboundMessages[i])
                 /\ on_message(InboundMessages[i], NoRaise)) =>
                /\ UNCHANGED result_vars
                /\ ~last_inbound'.escaped
      ]_vars

\* C18: an exception raised by a listener during the dispatch of an inbound
\* message does not get out of _on_message, and the session keeps receiving:
\* the pump runs, the connection and the subscription stay.
C18_CallbackErrorContained ==
    [][ last_inbound' # last_inbound =>
            /\ ~last_inbound'.escaped
            /\ loop_running' /\ link' = "established" /\ sub_topic \in subscribed'
      ]_vars

\* C18 witness: a listener call has raised, and the listener has been called
\* again for a later message, which was handled without error.
C18_Witness ==
    /\ Len(online_events) = 2
    /\ online_events[1].raised
    /\ ~online_events[2].raised
    /\ last_inbound.cmd = "onlineStatus"
    /\ last_inbound.error = None

\* the dpid-30 properties of a reportEnergy message
EnergyProperties(msg) ==
    {j \in 1..Len(msg.value.data.property) : msg.value.data.property[j].dpid = 30}

\* C19: with a listener set, every entry of an onlineStatus message and every
\* dpid-30 property of a reportEnergy message is delivered to the listener,
\* whether or not the listener raises on an earlier one.
C19_LaterEntriesStillDelivered ==
    [][ \A i \in DOMAIN CallbackMessages, behaviour \in Behaviours :
            LET msg == CallbackMessages[i]
            IN  /\ (IsCmd(msg, "onlineStatus") /\ on_online_status # None
                        /\ on_message(msg, behaviour)) =>
                       Len(online_events') = Len(online_events) + Len(msg.value.data)
                /\ (IsCmd(msg, "reportEnergy") /\ on_energy_report # None
                        /\ on_message(msg, behaviour)) =>
                       Len(energy_events') =
                           Len(energy_events) + Cardinality(EnergyProperties(msg))
      ]_vars

\* the calls of the listener made in this step
NewOnlineEvents == SubSeq(online_events', Len(online_events) + 1, Len(online_events'))

\* C20: the listeners registered for the online status all stay registered,
\* and each entry of an onlineStatus message is delivered to each of them in
\* the order of their registration.
C20_AllListenersInOrder ==
    [][ \A i \in DOMAIN CallbackMessages :
            LET msg == CallbackMessages[i]
                count == Len(registered)
            IN  (/\ IsCmd(msg, "onlineStatus")
                 /\ on_message(msg, NoRaise)) =>
                    /\ Len(NewOnlineEvents) = Len(msg.value.data) * count
                    /\ \A e \in 1..Len(msg.value.data), k \in 1..count :
                           NewOnlineEvents[(e - 1) * count + k].listener = registered[k]
      ]_vars

\* the event the online-status listener is to get for one entry of a message
EntryEvent(entry, e) ==
    /\ e.dev_id = gen_device_unique_id(entry.devType, entry.channel, entry.address, gw_sn)
    /\ e.available = entry.status

CarriesData(msg) ==
    /\ "data" \in DOMAIN msg.value
    /\ {"devType", "channel", "address"} \subseteq DOMAIN msg.value.data

\* the calls of the device-status listener made in this step
NewDeviceEvents == SubSeq(device_events', Len(device_events) + 1, Len(device_events'))

\* C22: with a listener set, a devStatus or readDevRes message that carries a
\* data object leads to exactly one call of the device-status listener, with
\* the identifier built from devType, channel, address and the gateway serial
\* and with the property list of the message (empty when there is none); a
\* message without data, or with an empty data object, leads to no call.
C22_OneDeviceStatusCallback ==
    [][ \A i \in DOMAIN DeviceStatusMessages, behaviour \in Behaviours :
            LET msg == DeviceStatusMessages[i]
            IN  (on_device_status # None /\ on_message(msg, behaviour)) =>
                    /\ SubSeq(device_events', 1, Len(device_events)) = device_events
                    /\ IF CarriesData(msg)
                       THEN /\ Len(NewDeviceEvents) = 1
                            /\ NewDeviceEvents[1].dev_id =
                                   gen_device_unique_id(msg.value.data.devType,
                                                        msg.value.data.channel,
                                                        msg.value.data.address, gw_sn)
                            /\ NewDeviceEvents[1].property_list =
                                   Get(msg.value.data, "property", <<>>)
                       ELSE NewDeviceEvents = <<>>
      ]_vars

\* C22 witness: the listener has been called for the devStatus message with
\* two properties and then for the readDevRes message of another device, and
\* a message without data has been handled after that.
C22_Witness ==
    /\ Len(device_events) = 2
    /\ device_events[1].property_list = <<Brightness(500), ColorTemp(3000)>>
    /\ device_events[2].dev_id = gen_device_unique_id("0101", 0, 2, gw_sn)
    /\ last_inbound.cmd = "devStatus"
    /\ last_inbound.error = None

\* C23: an identifyDevRes message that arrives while a caller waits for the
\* identify response sets the identify signal and keeps the ack of the
\* message, so that the caller is released with that ack.
C23_IdentifyResponseSignals ==
    [][ \A i \in DOMAIN IdentifyMessages :
            LET msg == IdentifyMessages[i]
            IN  (/\ IsCmd(msg, "identifyDevRes")
                 /\ pc_identify = "waiting"
                 /\ on_message(msg, NoRaise)) =>
                    /\ identify_received'
                    /\ identify_ack' = msg.value.ack
      ]_vars

\* the cmd values of the messages the session publishes
PublishedCmds ==
    {"getVersion", "searchDev", "getGroup", "getScene", "writeGroup", "writeScene",
     "setSensorOnOff", "getSensorOnOff", "readDev", "writeDev"}

\* C24: every message the session has published carries the fields cmd, msgId
\* and gwSn, with one of the cmd values of the session and gwSn equal to the
\* gateway serial of the session, and was published on the topic
\* /<gw_sn>/server/publish/.
C24_PublishedEnvelope ==
    \A i \in 1..Len(published) :
        /\ published[i].topic = "/" \o gw_sn \o "/server/publish/"
        /\ {"cmd", "msgId", "gwSn"} \subseteq DOMAIN published[i].payload
        /\ published[i].payload.cmd \in PublishedCmds
        /\ published[i].payload.gwSn = gw_sn

\* C24 witness: a batched writeDev and then a searchDev request have been
\* published.
C24_Witness ==
    /\ Len(published) = 2
    /\ published[1].payload.cmd = "writeDev"
    /\ published[2].payload.cmd = "searchDev"

\* C25: a command_write_group call publishes exactly one message, in the call
\* itself: the message is appended to what was published before, has
\* cmd = writeGroup, the channel and the groupId of the call and the given
\* property list as data, and the pending batches and their timers are left
\* as they are.
C25_WriteGroupPublishesOnce ==
    [][ \A g \in AllGroupIds, c \in GroupChannels, p \in PropertyLists :
            command_write_group(g, c, p) =>
                /\ Len(published') = Len(published) + 1
                /\ SubSeq(published', 1, Len(published)) = published
                /\ Last(published').payload.cmd = "writeGroup"
                /\ Last(published').payload.channel = c
                /\ Last(published').payload.groupId = g
                /\ Last(published').payload.data = p
                /\ UNCHANGED batch_vars
      ]_vars

\* C25 witness: the writeGroup for group 6 has been published while a
\* writeDev request waits in its batch window.
C25_Witness ==
    /\ Len(published) = 1
    /\ published[1].payload.cmd = "writeGroup"
    /\ published[1].payload.groupId = 6
    /\ published[1].payload.data = PropOff
    /\ DictHas(pending_requests, "writeDev")
    /\ DictAt(pending_requests, "writeDev") # <<>>

\* C26: every brightness property (dpid 22) of a published writeGroup has a
\* value in 0..1000: turn_on sends a brightness above 1000 as 1000 and one
\* below 0 as 0.
C26_BrightnessClamped ==
    \A i \in 1..Len(published) :
        published[i].payload.cmd = "writeGroup" =>
            \A j \in 1..Len(published[i].payload.data) :
                published[i].payload.data[j].dpid = 22 =>
                    published[i].payload.data[j].value \in 0..1000

\* the datagrams of log that hold a valid descriptor
ValidIn(log) == {i \in 1..Len(log) : receive(log[i], {}).gateway # <<>>}

\* the descriptor of the first valid datagram of log, as a list; empty when
\* log has no valid datagram
FirstDescriptor(log) ==
    IF ValidIn(log) = {}
    THEN <<>>
    ELSE <<receive(log[FirstIndex(ValidIn(log), Len(log))], {}).gateway[1]>>

\* discover_gateways returns in this step
GatewaysReturn == pc_gateways = "joining" /\ pc_gateways' = "idle"

\* C27: the first valid descriptor completes a discover_gateways call: once
\* a descriptor is in the list no further datagram is taken from the socket,
\* and the list returned holds the descriptor of the first valid datagram
\* received and nothing else, so no two descriptors with the same serial.
C27_FirstDescriptorCompletes ==
    [][ /\ (unique_gateways # <<>> /\ pc_gateways # "idle") =>
               received_datagrams' = received_datagrams
        /\ GatewaysReturn =>
               /\ last_gateways'.result = FirstDescriptor(received_datagrams)
               /\ \A i, j \in 1..Len(last_gateways'.result) :
                      i # j => last_gateways'.result[i].gw_sn #
                                   last_gateways'.result[j].gw_sn
      ]_vars

\* C27 witness: two descriptors of the gateway GW1 have arrived; the call has
\* returned the first one, the second one was not taken from the socket.
C27_Witness ==
    /\ pc_gateways = "idle"
    /\ Len(last_gateways.result) = 1
    /\ last_gateways.result[1].gw_sn = "GW1"
    /\ last_gateways.result[1].gw_ip = "10.0.0.1"
    /\ socket_queue = <<Response(RawGateway("GW1", "10.0.0.2", "e1f2a3"))>>

\* C28: a malformed datagram taken from the socket before the timeout is
\* skipped: the receiver goes on with its loop, so that the call does not end
\* and a valid datagram that arrives later is still accepted.
C28_MalformedDatagramSkipped ==
    [][ \A datagram \in MalformedDatagrams :
            (/\ socket_queue # <<>>
             /\ Head(socket_queue) = datagram
             /\ gateways_elapsed < DISCOVERY_TIMEOUT
             /\ receiver_loop) =>
                receiver_task' = "pending"
      ]_vars

C30_NoInterfacesReturnsAtOnce ==
    [][ \A addrs \in HostAddresses :
            (get_valid_interfaces(addrs) = <<>> /\ discover_gateways_begin(addrs)) =>
                /\ listen_sock' # "open"
                /\ sender_task' # "pending" /\ receiver_task' # "pending"
                /\ pc_gateways' = "idle"
                /\ last_gateways'.op = "discover_gateways"
                /\ last_gateways'.result = <<>>
      ]_vars

\* the serials a caller asks discover_gateways for
WantedSerials == {"GW1", "GW2"}

\* C31: with a gateway_sn filter, the descriptor of a gateway with another
\* serial does not complete the call: when the receiver takes such a
\* descriptor before the timeout, the signal stays unset and the receiver
\* goes on with its loop.
C31_OtherSerialDoesNotComplete ==
    [][ \A wanted \in WantedSerials :
            (/\ receiver_loop
             /\ gateways_elapsed < DISCOVERY_TIMEOUT
             /\ receive_next.gateway # <<>>
             /\ receive_next.gateway[1].gw_sn # wanted) =>
                /\ ~first_gateway_found'
                /\ receiver_task' = "pending"
      ]_vars

\* C32: decrypt_data(encrypt_data(s, k), k) = s for every text s and every
\* key k of 16 bytes: decrypt_data raises nothing on what encrypt_data
\* returned and gives the text back.
C32_DecryptInvertsEncrypt ==
    /\ \A key \in Keys : Len(utf8_encode(key)) = 16
    /\ last_crypt.op = "decrypt_data" =>
           /\ last_crypt.exc = None
           /\ last_crypt.result = last_crypt.data

\* C32 witness: a text with a character of two bytes and one of three bytes
\* has gone through encrypt_data and decrypt_data under a key with a
\* character of two bytes.
C32_Witness ==
    /\ last_crypt.op = "decrypt_data"
    /\ last_crypt.data = <<233, 8364>>
    /\ last_crypt.key[1] = 233
    /\ last_crypt.result = <<233, 8364>>

\* C33: when a flush timer fires with requests pending, the batch of its
\* command is cleared and its timer handle removed whatever the publish call
\* does: after the callback pending[cmd] is empty and no handle is recorded,
\* also when the publication has raised.
C33_ClearedBeforePublication ==
    [][ (Fired /\ ~GetIsFalsy(pending_requests, Head(loop_timers).arg)) =>
            /\ GetIsFalsy(pending_requests', Head(loop_timers).arg)
            /\ ~DictHas(batch_timer', Head(loop_timers).arg)
      ]_vars

\* C36: no request is left behind: whenever requests of a command are
\* pending, a timer of that command is scheduled on the event loop and has
\* not fired yet, so that a later flush publishes them.
C36_PendingHasLiveTimer ==
    \A cmd \in BatchCmds :
        ~GetIsFalsy(pending_requests, cmd) => TimersFor(cmd) # {}

\* C34: when connect() returns successfully the session has subscribed to
\* the inbound topic, however the steps of the connect callback on the
\* broker client's thread and the waiting connect() call interleave.
C34_SubscribedWhenConnectReturns ==
    [][ (ConnectEnds /\ ~last_call'.raised) => sub_topic \in subscribed' ]_vars

\* C35: the handlers of inbound messages touch the state of the session on
\* the event loop only: while _process_search_device_response is at work no
\* code of the loop runs, so that nothing is added to a batch, flushed or
\* published and no discover_devices call begins or ends between two of its
\* steps.
C35_HandlersRunOnTheLoop ==
    [][ paho_thread.at = "_process_search_device_response" =>
            UNCHANGED <<batch_vars, published, pc_discover, last_discover>>
      ]_vars

\* the entry of key k in the dict d, as a list: empty when d has no such key
EntryOf(d, k) == IF DictHas(d, k) THEN <<DictAt(d, k)>> ELSE <<>>

\* the timers of cmd among timers
TimersOf(timers, cmd) == SelectSeq(timers, LAMBDA t : t.arg = cmd)

\* this step is an add_request call of cmd
Added(cmd) ==
    /\ Len(window_calls') = Len(window_calls) + 1
    /\ Last(window_calls').cmd = cmd

\* this step is the flush of cmd
Flushed(cmd) == Fired /\ Head(loop_timers).arg = cmd

\* C37: the batches of the commands are independent: an add_request call of
\* one command and the flush of one command leave the pending requests, the
\* timer handle and the scheduled timer of the other command as they were.
C37_BatchesIndependent ==
    [][ \A cmd \in BatchCmds :
            (Added(cmd) \/ Flushed(cmd)) =>
                \A other \in BatchCmds \ {cmd} :
                    /\ EntryOf(pending_requests', other) = EntryOf(pending_requests, other)
                    /\ EntryOf(batch_timer', other) = EntryOf(batch_timer, other)
                    /\ TimersOf(loop_timers', other) = TimersOf(loop_timers, other)
      ]_vars

\* C37 witness: the readDev batch has been flushed while a writeDev request
\* was pending; the writeDev request, its handle and its timer are still there.
C37_Witness ==
    /\ Len(published) = 1
    /\ published[1].payload.cmd = "readDev"
    /\ GetIsFalsy(pending_requests, "readDev")
    /\ ~DictHas(batch_timer, "readDev")
    /\ ~GetIsFalsy(pending_requests, "writeDev")
    /\ DictHas(batch_timer, "writeDev")
    /\ TimersFor("writeDev") # {}

\* C38: the devices-result holds no device twice and is never cleared: every
\* step keeps the devices it holds, in their places, and a discover_devices
\* call returns the list as it is, with every device reported so far.
C38_DevicesKeptOnce ==
    [][ /\ \A i, j \in 1..Len(devices_result') :
               i # j => devices_result'[i] # devices_result'[j]
        /\ BeginsWith(devices_result', devices_result)
        /\ (DiscoverEnds /\ pc_discover = "devices") =>
               last_discover'.result = devices_result'
      ]_vars

\* C38 witness: the second discover_devices call has returned both devices,
\* each once, after responses that reported the first device three times.
C38_Witness ==
    /\ pc_discover = "idle"
    /\ Len(published) = 2
    /\ last_discover.op = "discover_devices"
    /\ ~last_discover.timed_out
    /\ Len(last_discover.result) = 2
    /\ last_discover.result[1].address = 1
    /\ last_discover.result[2].address = 2

\* the publish calls of this step
NewPublished == SubSeq(published', Len(published) + 1, Len(published'))

\* the publish calls of this step are one writeGroup message of the group for
\* each of the properties, in their order, each with that property alone
OnePublishPerProperty(group_id, channel, properties) ==
    /\ Len(NewPublished) = Len(properties)
    /\ \A i \in 1..Len(properties) :
           /\ NewPublished[i].topic = pub_topic
           /\ NewPublished[i].payload.cmd = "writeGroup"
           /\ NewPublished[i].payload.groupId = group_id
           /\ NewPublished[i].payload.channel = channel
           /\ Len(NewPublished[i].payload.data) = 1
           /\ NewPublished[i].payload.data[1] = properties[i]

\* C39: turn_on and turn_off publish one writeGroup message for each property
\* they build, in the order of building and each with a data list of that one
\* property; the first is the on/off property (dpid 20), and a call that
\* builds k properties makes k publish calls.
C39_OneWriteGroupPerProperty ==
    [][ /\ \A g \in GroupIds, c \in GroupChannels, b \in BrightnessValues,
              t \in ColorTemps, w \in RgbwColors :
               turn_on(g, c, b, t, w) =>
                   /\ OnePublishPerProperty(g, c, turn_on_properties(b, t, w))
                   /\ NewPublished[1].payload.data[1].dpid = 20
        /\ \A g \in GroupIds, c \in GroupChannels :
               turn_off(g, c) =>
                   /\ OnePublishPerProperty(g, c, <<create_property(20, "bool", FALSE)>>)
                   /\ NewPublished[1].payload.data[1].dpid = 20
      ]_vars

\* C39 witness: a turn_on call with a brightness and a colour temperature has
\* made three publish calls: on/off, brightness, colour temperature.
C39_Witness ==
    /\ Len(published) = 3
    /\ \A i \in 1..3 : Len(published[i].payload.data) = 1
    /\ published[1].payload.data[1].dpid = 20
    /\ published[2].payload.data[1].dpid = 22
    /\ published[3].payload.data[1].dpid = 23

\* msg is a getSceneRes / getGroupRes whose channel list is empty or whose
\* channel entries all lack data
WithoutData(msg) ==
    \/ IsCmd(msg, "getSceneRes") /\ "scene" \in DOMAIN msg.value
           /\ WithData(msg.value.scene) = {}
    \/ IsCmd(msg, "getGroupRes") /\ "group" \in DOMAIN msg.value
           /\ WithData(msg.value.group) = {}

\* the kind of result msg is about
KindOf(msg) == IF IsCmd(msg, "getSceneRes") THEN "scenes" ELSE "groups"

\* C40: a getSceneRes or getGroupRes without channels, or with channels that
\* all lack data, leaves the scenes and groups results as they were and sets
\* the completion signal; the waiting discover call then returns the result
\* of before.
C40_NoDataKeepsResult ==
    [][ /\ \A i \in DOMAIN SceneGroupResponses :
               (WithoutData(SceneGroupResponses[i])
                    /\ on_message(SceneGroupResponses[i], NoRaise)) =>
                   /\ scenes_result' = scenes_result
                   /\ groups_result' = groups_result
                   /\ received'[KindOf(SceneGroupResponses[i])]
        /\ (DiscoverEnds /\ pc_discover \in {"scenes", "groups"}) =>
               /\ last_discover'.result = ResultOf(pc_discover)
               /\ UNCHANGED <<scenes_result, groups_result>>
      ]_vars

\* C40 witness: a discover_scenes call, the second request published, has
\* returned, not by its timeout, the scene that an earlier response reported:
\* the response that completed it carried no data.
C40_Witness ==
    /\ pc_discover = "idle"
    /\ Len(published) = 2
    /\ published[2].payload.cmd = "getScene"
    /\ last_discover.op = "discover_scenes"
    /\ ~last_discover.timed_out
    /\ Len(last_discover.result) = 1
    /\ last_discover.result[1].id = 1

====
